---- MODULE Spec2Model ----
(***************************************************************************)
(* OncoStaging: the staging decision tables (lib/staging.ts), the feature  *)
(* extraction and document processing (lib/utils.ts,                       *)
(* lib/document-processor.ts), the upload pipeline of the page             *)
(* (app/page.tsx) and the question/answer panel (components/QASection.tsx).*)
(*                                                                         *)
(* JavaScript strings are modelled as sequences of one-character strings,  *)
(* so that toLowerCase, includes, trim and template literals are computed  *)
(* character by character.  A character outside ASCII is written "U+hhhh". *)
(* Lengths in centimetres are kept in units of 0.01 cm (see Cm).           *)
(***************************************************************************)
EXTENDS Integers, Sequences, FiniteSets, TLC

(***************************************************************************)
(* String primitives of the JavaScript runtime                             *)
(***************************************************************************)
UpperLetters ==
    <<"A", "B", "C", "D", "E", "F", "G", "H", "I", "J", "K", "L", "M",
      "N", "O", "P", "Q", "R", "S", "T", "U", "V", "W", "X", "Y", "Z">>

LowerLetters ==
    <<"a", "b", "c", "d", "e", "f", "g", "h", "i", "j", "k", "l", "m",
      "n", "o", "p", "q", "r", "s", "t", "u", "v", "w", "x", "y", "z">>

\* the lower-case letter of each upper-case letter, and conversely
UpperToLower ==
    [c \in {UpperLetters[i] : i \in 1..26} |->
        LowerLetters[CHOOSE i \in 1..26 : UpperLetters[i] = c]]

LowerToUpper ==
    [c \in {LowerLetters[i] : i \in 1..26} |->
        UpperLetters[CHOOSE i \in 1..26 : LowerLetters[i] = c]]

toLowerCaseChar(c) == IF c \in DOMAIN UpperToLower THEN UpperToLower[c] ELSE c

toUpperCaseChar(c) == IF c \in DOMAIN LowerToUpper THEN LowerToUpper[c] ELSE c

\* String.prototype.toLowerCase
toLowerCase(s) == [i \in 1..Len(s) |-> toLowerCaseChar(s[i])]

\* String.prototype.toUpperCase
toUpperCase(s) == [i \in 1..Len(s) |-> toUpperCaseChar(s[i])]

\* String.prototype.includes: `sub' occurs in `s' as a contiguous substring
includes(s, sub) ==
    \E i \in 0..(Len(s) - Len(sub)) : \A j \in 1..Len(sub) : s[i + j] = sub[j]

\* String.prototype.startsWith
startsWith(s, prefix) ==
    Len(s) >= Len(prefix) /\ SubSeq(s, 1, Len(prefix)) = prefix

\* the white space String.prototype.trim removes (the ASCII part of it)
WhiteSpace == {" ", "\t", "\n", "\r"}

RECURSIVE trimStart(_)
trimStart(s) == IF s # <<>> /\ s[1] \in WhiteSpace THEN trimStart(Tail(s)) ELSE s

RECURSIVE trimEnd(_)
trimEnd(s) ==
    IF s # <<>> /\ s[Len(s)] \in WhiteSpace THEN trimEnd(SubSeq(s, 1, Len(s) - 1)) ELSE s

\* String.prototype.trim
trim(s) == trimEnd(trimStart(s))

\* a value that is absent (null or undefined)
Null == [null |-> TRUE]

\* a thrown value: an Error with its message, or a value that is not an Error
Error(message) == [isError |-> TRUE, message |-> message]

NonError == [isError |-> FALSE, message |-> <<>>]

\* error instanceof Error ? error.message : fallback
messageOf(error, fallback) == IF error.isError THEN error.message ELSE fallback

\* how a call ended: with a returned value or with a thrown one
Returned(value) == [status |-> "returned", value |-> value]

Thrown(error) == [status |-> "thrown", value |-> error]

\* n centimetres in the unit of the model (0.01 cm)
Cm(n) == n * 100

(***************************************************************************)
(* State                                                                   *)
(***************************************************************************)
VARIABLES
    inCancerType,       \* determineTNMStage: the argument cancerType
    inFeatures,         \* determineTNMStage: the argument features
    outStaging,              \* determineTNMStage: the returned TNMStaging, Null before the call
    inQuestion,         \* generateAnswer: the argument question
    inResults,          \* generateAnswer: the argument results
    outAnswer,           \* generateAnswer: the returned text, Null before the call
    tesseractWorker,  \* DocumentProcessor.tesseractWorker: NoWorker (null) or a worker
    workersCreated,   \* number of workers createWorker has resolved with so far
    terminated,       \* the workers whose terminate() has resolved
    calls,            \* the calls of DocumentProcessor methods: position and locals
    returned,         \* the method call that ended last, with its result; Null before
    started,          \* number of DocumentProcessor method calls made so far
    appState,         \* OncoStagingApp: the state appState
    isProcessing,     \* OncoStagingApp: the state isProcessing
    processingProgress, \* OncoStagingApp: the state processingProgress
    run,              \* the run of handleFileSelect started last: position, locals, and
                      \* the values it has given to current_step and processingProgress
    timers,           \* number of pending timers of setTimeout(() => setProcessingProgress(0))
    downloads,        \* number of summaries handleDownload has handed to the browser
    inExtract,        \* an extraction function of lib/utils.ts or extractFeatures: its
                      \* name and its argument
    outExtract,       \* the value it returned, Null before the call
    messages,         \* QASection: the state messages (type and content of each)
    currentQuestion,  \* QASection: the state currentQuestion
    isLoading,        \* QASection: the state isLoading
    answerTimers,     \* QASection: the pending timers of handleSubmit, each with the
                      \* currentQuestion and results its callback has captured
    qaResults,        \* QASection: the prop results
    submitted         \* number of calls of handleSubmit so far

stagingVars == <<inCancerType, inFeatures, outStaging>>

qaVars == <<messages, currentQuestion, isLoading, answerTimers, qaResults, submitted>>

answerVars == <<inQuestion, inResults, outAnswer, qaVars>>

processorVars == <<tesseractWorker, workersCreated, terminated, calls, returned, started>>

appVars == <<appState, isProcessing, processingProgress, run, timers, downloads>>

extractVars == <<inExtract, outExtract>>

vars ==
    <<inCancerType, inFeatures, outStaging, inQuestion, inResults, outAnswer,
      tesseractWorker, workersCreated, terminated, calls, returned, started,
      appState, isProcessing, processingProgress, run, timers, downloads,
      inExtract, outExtract,
      messages, currentQuestion, isLoading, answerTimers, qaResults, submitted>>

(***************************************************************************)
(* lib/staging.ts (src/unnamed/part_000): string constants                 *)
(***************************************************************************)
\* part_000:172: 'gallbladder'
S_gallbladder ==
    <<"g", "a", "l", "l", "b", "l", "a", "d", "d", "e", "r">>

\* part_000:174: 'esophageal'
S_esophageal ==
    <<"e", "s", "o", "p", "h", "a", "g", "e", "a", "l">>

\* part_000:176: 'breast'
S_breast ==
    <<"b", "r", "e", "a", "s", "t">>

\* part_000:178: 'lung'
S_lung ==
    <<"l", "u", "n", "g">>

\* part_000:180: 'colorectal'
S_colorectal ==
    <<"c", "o", "l", "o", "r", "e", "c", "t", "a", "l">>

\* part_000:182: 'head and neck'
S_head_and_neck ==
    <<"h", "e", "a", "d", " ", "a", "n", "d", " ", "n", "e", "c", "k">>

\* part_000:183: 'oral cavity'
S_oral_cavity ==
    <<"o", "r", "a", "l", " ", "c", "a", "v", "i", "t", "y">>

\* part_000:184: 'oropharynx'
S_oropharynx ==
    <<"o", "r", "o", "p", "h", "a", "r", "y", "n", "x">>

\* part_000:188: 'Unknown'
S_Unknown ==
    <<"U", "n", "k", "n", "o", "w", "n">>

\* part_000:191: 'Not available'
S_Not_available ==
    <<"N", "o", "t", " ", "a", "v", "a", "i", "l", "a", "b", "l", "e">>

\* part_000:192: 'Staging not available for '
S_Staging_not_available_for ==
    <<"S", "t", "a", "g", "i", "n", "g", " ", "n", "o", "t", " ", "a", "v", "a", "i", "l", "a",
      "b", "l", "e", " ", "f", "o", "r", " ">>

\* part_000:202: 'T3'
S_T3 ==
    <<"T", "3">>

\* part_000:204: 'T2'
S_T2 ==
    <<"T", "2">>

\* part_000:206: 'T1'
S_T1 ==
    <<"T", "1">>

\* part_000:208: 'Tx'
S_Tx ==
    <<"T", "x">>

\* part_000:213: 'N0'
S_N0 ==
    <<"N", "0">>

\* part_000:215: 'N1'
S_N1 ==
    <<"N", "1">>

\* part_000:217: 'N2'
S_N2 ==
    <<"N", "2">>

\* part_000:225: 'Stage IVB'
S_Stage_IVB ==
    <<"S", "t", "a", "g", "e", " ", "I", "V", "B">>

\* part_000:227: 'Stage IVA'
S_Stage_IVA ==
    <<"S", "t", "a", "g", "e", " ", "I", "V", "A">>

\* part_000:229: 'Stage IIIB'
S_Stage_IIIB ==
    <<"S", "t", "a", "g", "e", " ", "I", "I", "I", "B">>

\* part_000:231: 'Stage II'
S_Stage_II ==
    <<"S", "t", "a", "g", "e", " ", "I", "I">>

\* part_000:233: 'Stage IIIA'
S_Stage_IIIA ==
    <<"S", "t", "a", "g", "e", " ", "I", "I", "I", "A">>

\* part_000:235: 'Stage I'
S_Stage_I ==
    <<"S", "t", "a", "g", "e", " ", "I">>

\* part_000:237: 'Stage Unknown'
S_Stage_Unknown ==
    <<"S", "t", "a", "g", "e", " ", "U", "n", "k", "n", "o", "w", "n">>

\* part_000:254: 'mucosa'
S_mucosa ==
    <<"m", "u", "c", "o", "s", "a">>

\* part_000:255: 'submucosa'
S_submucosa ==
    <<"s", "u", "b", "m", "u", "c", "o", "s", "a">>

\* part_000:255: 'T1b'
S_T1b ==
    <<"T", "1", "b">>

\* part_000:256: 'muscularis'
S_muscularis ==
    <<"m", "u", "s", "c", "u", "l", "a", "r", "i", "s">>

\* part_000:257: 'adventitia'
S_adventitia ==
    <<"a", "d", "v", "e", "n", "t", "i", "t", "i", "a">>

\* part_000:258: 'adjacent structures'
S_adjacent_structures ==
    <<"a", "d", "j", "a", "c", "e", "n", "t", " ", "s", "t", "r", "u", "c", "t", "u", "r", "e",
      "s">>

\* part_000:258: 'T4'
S_T4 ==
    <<"T", "4">>

\* part_000:271: 'N3'
S_N3 ==
    <<"N", "3">>

\* part_000:287: 'Stage III'
S_Stage_III ==
    <<"S", "t", "a", "g", "e", " ", "I", "I", "I">>

\* part_000:327: 'Stage IV'
S_Stage_IV ==
    <<"S", "t", "a", "g", "e", " ", "I", "V">>

\* part_000:401: 'muscularis propria'
S_muscularis_propria ==
    <<"m", "u", "s", "c", "u", "l", "a", "r", "i", "s", " ", "p", "r", "o", "p", "r", "i", "a">>

\* part_000:402: 'subserosa'
S_subserosa ==
    <<"s", "u", "b", "s", "e", "r", "o", "s", "a">>

\* part_000:403: 'peritoneum/invasion'
S_peritoneum_invasion ==
    <<"p", "e", "r", "i", "t", "o", "n", "e", "u", "m", "/", "i", "n", "v", "a", "s", "i", "o",
      "n">>

\* part_000:470: 'Stage IVC'
S_Stage_IVC ==
    <<"S", "t", "a", "g", "e", " ", "I", "V", "C">>

\* part_000:474: 'Stage II?III'
S_Stage_II_III ==
    <<"S", "t", "a", "g", "e", " ", "I", "I", "U+2013", "I", "I", "I">>

\* part_000:221: 'M1'
S_M1 ==
    <<"M", "1">>

\* part_000:221: 'M0'
S_M0 ==
    <<"M", "0">>

\* part_000:500: 'Staging information not available'
S_Staging_information_not_available ==
    <<"S", "t", "a", "g", "i", "n", "g", " ", "i", "n", "f", "o", "r", "m", "a", "t", "i", "o",
      "n", " ", "n", "o", "t", " ", "a", "v", "a", "i", "l", "a", "b", "l", "e">>

(***************************************************************************)
(* lib/staging.ts: the description of each stage, per cancer type           *)
(***************************************************************************)
\* part_000:493-498
GallbladderDescriptions ==
    \* 'Early stage cancer confined to gallbladder wall'
    (S_Stage_I :>
        <<"E", "a", "r", "l", "y", " ", "s", "t", "a", "g", "e", " ", "c", "a", "n", "c", "e", "r",
          " ", "c", "o", "n", "f", "i", "n", "e", "d", " ", "t", "o", " ", "g", "a", "l", "l", "b",
          "l", "a", "d", "d", "e", "r", " ", "w", "a", "l", "l">>)
    \* 'Tumor has reached outer layer of gallbladder'
    @@ (S_Stage_II :>
        <<"T", "u", "m", "o", "r", " ", "h", "a", "s", " ", "r", "e", "a", "c", "h", "e", "d", " ",
          "o", "u", "t", "e", "r", " ", "l", "a", "y", "e", "r", " ", "o", "f", " ", "g", "a", "l",
          "l", "b", "l", "a", "d", "d", "e", "r">>)
    \* 'Tumor has spread to nearby lymph nodes'
    @@ (S_Stage_IIIA :>
        <<"T", "u", "m", "o", "r", " ", "h", "a", "s", " ", "s", "p", "r", "e", "a", "d", " ", "t",
          "o", " ", "n", "e", "a", "r", "b", "y", " ", "l", "y", "m", "p", "h", " ", "n", "o", "d",
          "e", "s">>)
    \* 'Tumor has invaded liver or nearby organs'
    @@ (S_Stage_IIIB :>
        <<"T", "u", "m", "o", "r", " ", "h", "a", "s", " ", "i", "n", "v", "a", "d", "e", "d", " ",
          "l", "i", "v", "e", "r", " ", "o", "r", " ", "n", "e", "a", "r", "b", "y", " ", "o", "r",
          "g", "a", "n", "s">>)
    \* 'Tumor has spread to major blood vessels or multiple organs'
    @@ (S_Stage_IVA :>
        <<"T", "u", "m", "o", "r", " ", "h", "a", "s", " ", "s", "p", "r", "e", "a", "d", " ", "t",
          "o", " ", "m", "a", "j", "o", "r", " ", "b", "l", "o", "o", "d", " ", "v", "e", "s", "s",
          "e", "l", "s", " ", "o", "r", " ", "m", "u", "l", "t", "i", "p", "l", "e", " ", "o", "r",
          "g", "a", "n", "s">>)
    \* 'Advanced cancer with distant metastasis'
    @@ (S_Stage_IVB :>
        <<"A", "d", "v", "a", "n", "c", "e", "d", " ", "c", "a", "n", "c", "e", "r", " ", "w", "i",
          "t", "h", " ", "d", "i", "s", "t", "a", "n", "t", " ", "m", "e", "t", "a", "s", "t", "a",
          "s", "i", "s">>)

\* part_000:505-509
EsophagealDescriptions ==
    \* 'Early stage confined to inner layer of esophagus'
    (S_Stage_I :>
        <<"E", "a", "r", "l", "y", " ", "s", "t", "a", "g", "e", " ", "c", "o", "n", "f", "i", "n",
          "e", "d", " ", "t", "o", " ", "i", "n", "n", "e", "r", " ", "l", "a", "y", "e", "r", " ",
          "o", "f", " ", "e", "s", "o", "p", "h", "a", "g", "u", "s">>)
    \* 'Tumor has reached deeper layers of esophagus'
    @@ (S_Stage_II :>
        <<"T", "u", "m", "o", "r", " ", "h", "a", "s", " ", "r", "e", "a", "c", "h", "e", "d", " ",
          "d", "e", "e", "p", "e", "r", " ", "l", "a", "y", "e", "r", "s", " ", "o", "f", " ", "e",
          "s", "o", "p", "h", "a", "g", "u", "s">>)
    \* 'Spread to nearby lymph nodes'
    @@ (S_Stage_III :>
        <<"S", "p", "r", "e", "a", "d", " ", "t", "o", " ", "n", "e", "a", "r", "b", "y", " ", "l",
          "y", "m", "p", "h", " ", "n", "o", "d", "e", "s">>)
    \* 'Invaded nearby organs'
    @@ (S_Stage_IVA :>
        <<"I", "n", "v", "a", "d", "e", "d", " ", "n", "e", "a", "r", "b", "y", " ", "o", "r", "g",
          "a", "n", "s">>)
    \* 'Metastasis to distant organs'
    @@ (S_Stage_IVB :>
        <<"M", "e", "t", "a", "s", "t", "a", "s", "i", "s", " ", "t", "o", " ", "d", "i", "s", "t",
          "a", "n", "t", " ", "o", "r", "g", "a", "n", "s">>)

\* part_000:516-519
BreastDescriptions ==
    \* 'Early stage, small tumor, no lymph node spread'
    (S_Stage_I :>
        <<"E", "a", "r", "l", "y", " ", "s", "t", "a", "g", "e", ",", " ", "s", "m", "a", "l", "l",
          " ", "t", "u", "m", "o", "r", ",", " ", "n", "o", " ", "l", "y", "m", "p", "h", " ", "n",
          "o", "d", "e", " ", "s", "p", "r", "e", "a", "d">>)
    \* 'Moderate-sized tumor or limited lymph node involvement'
    @@ (S_Stage_II :>
        <<"M", "o", "d", "e", "r", "a", "t", "e", "-", "s", "i", "z", "e", "d", " ", "t", "u", "m",
          "o", "r", " ", "o", "r", " ", "l", "i", "m", "i", "t", "e", "d", " ", "l", "y", "m", "p",
          "h", " ", "n", "o", "d", "e", " ", "i", "n", "v", "o", "l", "v", "e", "m", "e", "n", "t">>)
    \* 'Large tumor or extensive lymph node involvement'
    @@ (S_Stage_III :>
        <<"L", "a", "r", "g", "e", " ", "t", "u", "m", "o", "r", " ", "o", "r", " ", "e", "x", "t",
          "e", "n", "s", "i", "v", "e", " ", "l", "y", "m", "p", "h", " ", "n", "o", "d", "e", " ",
          "i", "n", "v", "o", "l", "v", "e", "m", "e", "n", "t">>)
    \* 'Metastasis to distant organs'
    @@ (S_Stage_IV :>
        <<"M", "e", "t", "a", "s", "t", "a", "s", "i", "s", " ", "t", "o", " ", "d", "i", "s", "t",
          "a", "n", "t", " ", "o", "r", "g", "a", "n", "s">>)

\* part_000:526-529
LungDescriptions ==
    \* 'Early stage confined to lung only'
    (S_Stage_I :>
        <<"E", "a", "r", "l", "y", " ", "s", "t", "a", "g", "e", " ", "c", "o", "n", "f", "i", "n",
          "e", "d", " ", "t", "o", " ", "l", "u", "n", "g", " ", "o", "n", "l", "y">>)
    \* 'Large tumor or spread to nearby lymph nodes'
    @@ (S_Stage_II :>
        <<"L", "a", "r", "g", "e", " ", "t", "u", "m", "o", "r", " ", "o", "r", " ", "s", "p", "r",
          "e", "a", "d", " ", "t", "o", " ", "n", "e", "a", "r", "b", "y", " ", "l", "y", "m", "p",
          "h", " ", "n", "o", "d", "e", "s">>)
    \* 'Locally advanced, spread within chest'
    @@ (S_Stage_III :>
        <<"L", "o", "c", "a", "l", "l", "y", " ", "a", "d", "v", "a", "n", "c", "e", "d", ",", " ",
          "s", "p", "r", "e", "a", "d", " ", "w", "i", "t", "h", "i", "n", " ", "c", "h", "e", "s",
          "t">>)
    \* 'Metastasis to distant organs'
    @@ (S_Stage_IV :>
        <<"M", "e", "t", "a", "s", "t", "a", "s", "i", "s", " ", "t", "o", " ", "d", "i", "s", "t",
          "a", "n", "t", " ", "o", "r", "g", "a", "n", "s">>)

\* part_000:536-539
ColorectalDescriptions ==
    \* 'Early stage confined to bowel wall'
    (S_Stage_I :>
        <<"E", "a", "r", "l", "y", " ", "s", "t", "a", "g", "e", " ", "c", "o", "n", "f", "i", "n",
          "e", "d", " ", "t", "o", " ", "b", "o", "w", "e", "l", " ", "w", "a", "l", "l">>)
    \* 'Penetrated bowel wall but no lymph node spread'
    @@ (S_Stage_II :>
        <<"P", "e", "n", "e", "t", "r", "a", "t", "e", "d", " ", "b", "o", "w", "e", "l", " ", "w",
          "a", "l", "l", " ", "b", "u", "t", " ", "n", "o", " ", "l", "y", "m", "p", "h", " ", "n",
          "o", "d", "e", " ", "s", "p", "r", "e", "a", "d">>)
    \* 'Spread to nearby lymph nodes'
    @@ (S_Stage_III :>
        <<"S", "p", "r", "e", "a", "d", " ", "t", "o", " ", "n", "e", "a", "r", "b", "y", " ", "l",
          "y", "m", "p", "h", " ", "n", "o", "d", "e", "s">>)
    \* 'Metastasis to distant organs'
    @@ (S_Stage_IV :>
        <<"M", "e", "t", "a", "s", "t", "a", "s", "i", "s", " ", "t", "o", " ", "d", "i", "s", "t",
          "a", "n", "t", " ", "o", "r", "g", "a", "n", "s">>)

\* part_000:546-550
HeadNeckDescriptions ==
    \* 'Small tumor, locally confined'
    (S_Stage_I :>
        <<"S", "m", "a", "l", "l", " ", "t", "u", "m", "o", "r", ",", " ", "l", "o", "c", "a", "l",
          "l", "y", " ", "c", "o", "n", "f", "i", "n", "e", "d">>)
    \* 'Large tumor but no lymph node spread'
    @@ (S_Stage_II :>
        <<"L", "a", "r", "g", "e", " ", "t", "u", "m", "o", "r", " ", "b", "u", "t", " ", "n", "o",
          " ", "l", "y", "m", "p", "h", " ", "n", "o", "d", "e", " ", "s", "p", "r", "e", "a", "d">>)
    \* 'Spread to nearby lymph nodes'
    @@ (S_Stage_III :>
        <<"S", "p", "r", "e", "a", "d", " ", "t", "o", " ", "n", "e", "a", "r", "b", "y", " ", "l",
          "y", "m", "p", "h", " ", "n", "o", "d", "e", "s">>)
    \* 'Locally advanced disease'
    @@ (S_Stage_IVA :>
        <<"L", "o", "c", "a", "l", "l", "y", " ", "a", "d", "v", "a", "n", "c", "e", "d", " ", "d",
          "i", "s", "e", "a", "s", "e">>)
    \* 'Distant metastasis'
    @@ (S_Stage_IVC :>
        <<"D", "i", "s", "t", "a", "n", "t", " ", "m", "e", "t", "a", "s", "t", "a", "s", "i", "s">>)

(***************************************************************************)
(* lib/document-processor.ts: string constants                             *)
(***************************************************************************)
\* document-processor.ts:172: 'serosa'
S_serosa ==
    <<"s", "e", "r", "o", "s", "a">>

\* document-processor.ts:30: 'application/pdf'
S_application_pdf ==
    <<"a", "p", "p", "l", "i", "c", "a", "t", "i", "o", "n", "/", "p", "d", "f">>

\* document-processor.ts:36: 'application/vnd.openxmlformats-officedocument.wordprocessingml.document'
S_docx_mime ==
    <<"a", "p", "p", "l", "i", "c", "a", "t", "i", "o", "n", "/", "v", "n", "d", ".", "o", "p",
      "e", "n", "x", "m", "l", "f", "o", "r", "m", "a", "t", "s", "-", "o", "f", "f", "i", "c",
      "e", "d", "o", "c", "u", "m", "e", "n", "t", ".", "w", "o", "r", "d", "p", "r", "o", "c",
      "e", "s", "s", "i", "n", "g", "m", "l", ".", "d", "o", "c", "u", "m", "e", "n", "t">>

\* document-processor.ts:41: 'image/'
S_image_slash ==
    <<"i", "m", "a", "g", "e", "/">>

\* document-processor.ts:40: 'docx_extraction'
S_docx_extraction ==
    <<"d", "o", "c", "x", "_", "e", "x", "t", "r", "a", "c", "t", "i", "o", "n">>

\* document-processor.ts:45: 'tesseract_ocr'
S_tesseract_ocr ==
    <<"t", "e", "s", "s", "e", "r", "a", "c", "t", "_", "o", "c", "r">>

\* document-processor.ts:92: 'standard_extraction'
S_standard_extraction ==
    <<"s", "t", "a", "n", "d", "a", "r", "d", "_", "e", "x", "t", "r", "a", "c", "t", "i", "o",
      "n">>

\* document-processor.ts:117: 'pdf_ocr'
S_pdf_ocr ==
    <<"p", "d", "f", "_", "o", "c", "r">>

\* document-processor.ts:47: 'Unsupported file type'
E_Unsupported_file_type ==
    <<"U", "n", "s", "u", "p", "p", "o", "r", "t", "e", "d", " ", "f", "i", "l", "e", " ", "t",
      "y", "p", "e">>

\* document-processor.ts:65: 'Document processing failed: '
E_Document_processing_failed ==
    <<"D", "o", "c", "u", "m", "e", "n", "t", " ", "p", "r", "o", "c", "e", "s", "s", "i", "n",
      "g", " ", "f", "a", "i", "l", "e", "d", ":", " ">>

\* document-processor.ts:65: 'Unknown error'
E_Unknown_error ==
    <<"U", "n", "k", "n", "o", "w", "n", " ", "e", "r", "r", "o", "r">>

\* document-processor.ts:122: 'PDF processing failed: '
E_PDF_processing_failed ==
    <<"P", "D", "F", " ", "p", "r", "o", "c", "e", "s", "s", "i", "n", "g", " ", "f", "a", "i",
      "l", "e", "d", ":", " ">>

\* document-processor.ts:132: 'No text could be extracted from DOCX file'
E_No_text_DOCX ==
    <<"N", "o", " ", "t", "e", "x", "t", " ", "c", "o", "u", "l", "d", " ", "b", "e", " ", "e",
      "x", "t", "r", "a", "c", "t", "e", "d", " ", "f", "r", "o", "m", " ", "D", "O", "C", "X",
      " ", "f", "i", "l", "e">>

\* document-processor.ts:137: 'DOCX processing failed: '
E_DOCX_processing_failed ==
    <<"D", "O", "C", "X", " ", "p", "r", "o", "c", "e", "s", "s", "i", "n", "g", " ", "f", "a",
      "i", "l", "e", "d", ":", " ">>

\* document-processor.ts:156: 'OCR processing failed: '
E_OCR_processing_failed ==
    <<"O", "C", "R", " ", "p", "r", "o", "c", "e", "s", "s", "i", "n", "g", " ", "f", "a", "i",
      "l", "e", "d", ":", " ">>

\* document-processor.ts:199: 'Feature extraction failed: '
E_Feature_extraction_failed ==
    <<"F", "e", "a", "t", "u", "r", "e", " ", "e", "x", "t", "r", "a", "c", "t", "i", "o", "n",
      " ", "f", "a", "i", "l", "e", "d", ":", " ">>

\* document-processor.ts:15: 'eng'
S_eng ==
    <<"e", "n", "g">>

(***************************************************************************)
(* components/QASection.tsx: keywords, template texts and fallbacks of     *)
(* generateAnswer                                                          *)
(***************************************************************************)
\* QASection.tsx:177: 'stage'
K_stage ==
    <<"s", "t", "a", "g", "e">>

\* QASection.tsx:178: 'Your cancer is staged as **'
A_stage_1 ==
    <<"Y", "o", "u", "r", " ", "c", "a", "n", "c", "e", "r", " ", "i", "s", " ", "s", "t", "a",
      "g", "e", "d", " ", "a", "s", " ", "*", "*">>

\* QASection.tsx:178: '**. This means '
A_stage_2 ==
    <<"*", "*", ".", " ", "T", "h", "i", "s", " ", "m", "e", "a", "n", "s", " ">>

\* QASection.tsx:178: '.'
A_stage_3 ==
    <<".">>

\* QASection.tsx:178: 'staging information is not available'
F_staging_information_is_not_available ==
    <<"s", "t", "a", "g", "i", "n", "g", " ", "i", "n", "f", "o", "r", "m", "a", "t", "i", "o",
      "n", " ", "i", "s", " ", "n", "o", "t", " ", "a", "v", "a", "i", "l", "a", "b", "l", "e">>

\* QASection.tsx:179: 'treatment'
K_treatment ==
    <<"t", "r", "e", "a", "t", "m", "e", "n", "t">>

\* QASection.tsx:180: 'Based on your '
A_treatment_1 ==
    <<"B", "a", "s", "e", "d", " ", "o", "n", " ", "y", "o", "u", "r", " ">>

\* QASection.tsx:180: ' diagnosis at '
A_treatment_2 ==
    <<" ", "d", "i", "a", "g", "n", "o", "s", "i", "s", " ", "a", "t", " ">>

\* QASection.tsx:180: ', treatment typically involves a multidisciplinary approach. Please consult with your oncologist for specific treatment recommendations tailored to your case.'
A_treatment_3 ==
    <<",", " ", "t", "r", "e", "a", "t", "m", "e", "n", "t", " ", "t", "y", "p", "i", "c", "a",
      "l", "l", "y", " ", "i", "n", "v", "o", "l", "v", "e", "s", " ", "a", " ", "m", "u", "l",
      "t", "i", "d", "i", "s", "c", "i", "p", "l", "i", "n", "a", "r", "y", " ", "a", "p", "p",
      "r", "o", "a", "c", "h", ".", " ", "P", "l", "e", "a", "s", "e", " ", "c", "o", "n", "s",
      "u", "l", "t", " ", "w", "i", "t", "h", " ", "y", "o", "u", "r", " ", "o", "n", "c", "o",
      "l", "o", "g", "i", "s", "t", " ", "f", "o", "r", " ", "s", "p", "e", "c", "i", "f", "i",
      "c", " ", "t", "r", "e", "a", "t", "m", "e", "n", "t", " ", "r", "e", "c", "o", "m", "m",
      "e", "n", "d", "a", "t", "i", "o", "n", "s", " ", "t", "a", "i", "l", "o", "r", "e", "d",
      " ", "t", "o", " ", "y", "o", "u", "r", " ", "c", "a", "s", "e", ".">>

\* QASection.tsx:180: 'cancer'
F_cancer ==
    <<"c", "a", "n", "c", "e", "r">>

\* QASection.tsx:180: 'unknown stage'
F_unknown_stage ==
    <<"u", "n", "k", "n", "o", "w", "n", " ", "s", "t", "a", "g", "e">>

\* QASection.tsx:181: 'mean'
K_mean ==
    <<"m", "e", "a", "n">>

\* QASection.tsx:181: 'simple'
K_simple ==
    <<"s", "i", "m", "p", "l", "e">>

\* QASection.tsx:182: 'According to your report, this is **'
A_mean_1 ==
    <<"A", "c", "c", "o", "r", "d", "i", "n", "g", " ", "t", "o", " ", "y", "o", "u", "r", " ",
      "r", "e", "p", "o", "r", "t", ",", " ", "t", "h", "i", "s", " ", "i", "s", " ", "*", "*">>

\* QASection.tsx:182: ' '
A_mean_2 ==
    <<" ">>

\* QASection.tsx:182: '**.\n\n'
A_mean_3 ==
    <<"*", "*", ".", "\n", "\n">>

\* QASection.tsx:182: '\n\n?? Please consult your oncologist for final medical decisions.'
A_mean_4 ==
    <<"\n", "\n", "U+26A0", "U+FE0F", " ", "P", "l", "e", "a", "s", "e", " ", "c", "o", "n", "s",
      "u", "l", "t", " ", "y", "o", "u", "r", " ", "o", "n", "c", "o", "l", "o", "g", "i", "s",
      "t", " ", "f", "o", "r", " ", "f", "i", "n", "a", "l", " ", "m", "e", "d", "i", "c", "a",
      "l", " ", "d", "e", "c", "i", "s", "i", "o", "n", "s", ".">>

\* QASection.tsx:182: 'More information needed for detailed explanation.'
F_More_information_needed ==
    <<"M", "o", "r", "e", " ", "i", "n", "f", "o", "r", "m", "a", "t", "i", "o", "n", " ", "n",
      "e", "e", "d", "e", "d", " ", "f", "o", "r", " ", "d", "e", "t", "a", "i", "l", "e", "d",
      " ", "e", "x", "p", "l", "a", "n", "a", "t", "i", "o", "n", ".">>

\* QASection.tsx:183: 'next steps'
K_next_steps ==
    <<"n", "e", "x", "t", " ", "s", "t", "e", "p", "s">>

\* QASection.tsx:184: 'Based on your staging results, typical next steps may include:\n\n? Consultation with oncology team\n? Additional imaging or tests if needed\n? Discussion of treatment options\n? Second opinion if desired\n\n?? Your healthcare team will provide specific recommendations based on your complete medical history.'
A_next_steps ==
    <<"B", "a", "s", "e", "d", " ", "o", "n", " ", "y", "o", "u", "r", " ", "s", "t", "a", "g",
      "i", "n", "g", " ", "r", "e", "s", "u", "l", "t", "s", ",", " ", "t", "y", "p", "i", "c",
      "a", "l", " ", "n", "e", "x", "t", " ", "s", "t", "e", "p", "s", " ", "m", "a", "y", " ",
      "i", "n", "c", "l", "u", "d", "e", ":", "\n", "\n", "U+2022", " ", "C", "o", "n", "s", "u",
      "l", "t", "a", "t", "i", "o", "n", " ", "w", "i", "t", "h", " ", "o", "n", "c", "o", "l",
      "o", "g", "y", " ", "t", "e", "a", "m", "\n", "U+2022", " ", "A", "d", "d", "i", "t", "i",
      "o", "n", "a", "l", " ", "i", "m", "a", "g", "i", "n", "g", " ", "o", "r", " ", "t", "e",
      "s", "t", "s", " ", "i", "f", " ", "n", "e", "e", "d", "e", "d", "\n", "U+2022", " ", "D",
      "i", "s", "c", "u", "s", "s", "i", "o", "n", " ", "o", "f", " ", "t", "r", "e", "a", "t",
      "m", "e", "n", "t", " ", "o", "p", "t", "i", "o", "n", "s", "\n", "U+2022", " ", "S", "e",
      "c", "o", "n", "d", " ", "o", "p", "i", "n", "i", "o", "n", " ", "i", "f", " ", "d", "e",
      "s", "i", "r", "e", "d", "\n", "\n", "U+26A0", "U+FE0F", " ", "Y", "o", "u", "r", " ", "h",
      "e", "a", "l", "t", "h", "c", "a", "r", "e", " ", "t", "e", "a", "m", " ", "w", "i", "l",
      "l", " ", "p", "r", "o", "v", "i", "d", "e", " ", "s", "p", "e", "c", "i", "f", "i", "c",
      " ", "r", "e", "c", "o", "m", "m", "e", "n", "d", "a", "t", "i", "o", "n", "s", " ", "b",
      "a", "s", "e", "d", " ", "o", "n", " ", "y", "o", "u", "r", " ", "c", "o", "m", "p", "l",
      "e", "t", "e", " ", "m", "e", "d", "i", "c", "a", "l", " ", "h", "i", "s", "t", "o", "r",
      "y", ".">>

\* QASection.tsx:186: 'Thank you for your question. Based on your report showing '
A_default_1 ==
    <<"T", "h", "a", "n", "k", " ", "y", "o", "u", " ", "f", "o", "r", " ", "y", "o", "u", "r",
      " ", "q", "u", "e", "s", "t", "i", "o", "n", ".", " ", "B", "a", "s", "e", "d", " ", "o",
      "n", " ", "y", "o", "u", "r", " ", "r", "e", "p", "o", "r", "t", " ", "s", "h", "o", "w",
      "i", "n", "g", " ">>

\* QASection.tsx:186: ' at '
A_default_2 ==
    <<" ", "a", "t", " ">>

\* QASection.tsx:186: ', I recommend discussing this specific question with your healthcare team who can provide personalized medical advice.\n\n?? This system provides general information only and should not replace professional medical consultation.'
A_default_3 ==
    <<",", " ", "I", " ", "r", "e", "c", "o", "m", "m", "e", "n", "d", " ", "d", "i", "s", "c",
      "u", "s", "s", "i", "n", "g", " ", "t", "h", "i", "s", " ", "s", "p", "e", "c", "i", "f",
      "i", "c", " ", "q", "u", "e", "s", "t", "i", "o", "n", " ", "w", "i", "t", "h", " ", "y",
      "o", "u", "r", " ", "h", "e", "a", "l", "t", "h", "c", "a", "r", "e", " ", "t", "e", "a",
      "m", " ", "w", "h", "o", " ", "c", "a", "n", " ", "p", "r", "o", "v", "i", "d", "e", " ",
      "p", "e", "r", "s", "o", "n", "a", "l", "i", "z", "e", "d", " ", "m", "e", "d", "i", "c",
      "a", "l", " ", "a", "d", "v", "i", "c", "e", ".", "\n", "\n", "U+26A0", "U+FE0F", " ", "T",
      "h", "i", "s", " ", "s", "y", "s", "t", "e", "m", " ", "p", "r", "o", "v", "i", "d", "e",
      "s", " ", "g", "e", "n", "e", "r", "a", "l", " ", "i", "n", "f", "o", "r", "m", "a", "t",
      "i", "o", "n", " ", "o", "n", "l", "y", " ", "a", "n", "d", " ", "s", "h", "o", "u", "l",
      "d", " ", "n", "o", "t", " ", "r", "e", "p", "l", "a", "c", "e", " ", "p", "r", "o", "f",
      "e", "s", "s", "i", "o", "n", "a", "l", " ", "m", "e", "d", "i", "c", "a", "l", " ", "c",
      "o", "n", "s", "u", "l", "t", "a", "t", "i", "o", "n", ".">>

(***************************************************************************)
(* lib/staging.ts: stage description tables                                *)
(***************************************************************************)
\* descriptions[stage] || 'Staging information not available'
getGallbladderStageDescription(stage) ==
    IF stage \in DOMAIN GallbladderDescriptions THEN GallbladderDescriptions[stage] ELSE S_Staging_information_not_available

\* descriptions[stage] || stage
getEsophagealStageDescription(stage) ==
    IF stage \in DOMAIN EsophagealDescriptions THEN EsophagealDescriptions[stage] ELSE stage

\* descriptions[stage] || 'Staging information not available'
getBreastStageDescription(stage) ==
    IF stage \in DOMAIN BreastDescriptions THEN BreastDescriptions[stage] ELSE S_Staging_information_not_available

\* descriptions[stage] || 'Staging information not available'
getLungStageDescription(stage) ==
    IF stage \in DOMAIN LungDescriptions THEN LungDescriptions[stage] ELSE S_Staging_information_not_available

\* descriptions[stage] || 'Staging information not available'
getColorectalStageDescription(stage) ==
    IF stage \in DOMAIN ColorectalDescriptions THEN ColorectalDescriptions[stage] ELSE S_Staging_information_not_available

\* descriptions[stage] || stage
getHeadNeckStageDescription(stage) ==
    IF stage \in DOMAIN HeadNeckDescriptions THEN HeadNeckDescriptions[stage] ELSE stage

(***************************************************************************)
(* lib/staging.ts: the per-cancer-type stagers.  Each computes T, N and M  *)
(* and then the overall stage by the first matching row of its table.      *)
(***************************************************************************)
\* M = features.distant_metastasis ? 'M1' : 'M0'
MStage(features) == IF features.distant_metastasis THEN S_M1 ELSE S_M0

TNMStaging(T, N, M, stage, description) ==
    [T |-> T, N |-> N, M |-> M, stage |-> stage, description |-> description]

GallbladderT(features) ==
    IF features.liver_invasion THEN S_T3
    ELSE IF features.tumor_size_cm > Cm(2) THEN S_T2
    ELSE IF features.tumor_size_cm > 0 THEN S_T1
    ELSE S_Tx

GallbladderN(features) ==
    IF features.lymph_nodes_involved = 0 THEN S_N0
    ELSE IF features.lymph_nodes_involved <= 3 THEN S_N1
    ELSE S_N2

GallbladderStage(T, N, M) ==
    IF M = S_M1 THEN S_Stage_IVB
    ELSE IF T = S_T3 /\ N # S_N0 THEN S_Stage_IVA
    ELSE IF T = S_T3 THEN S_Stage_IIIB
    ELSE IF T = S_T2 /\ N = S_N0 THEN S_Stage_II
    ELSE IF T \in {S_T1, S_T2} /\ N # S_N0 THEN S_Stage_IIIA
    ELSE IF T = S_T1 /\ N = S_N0 THEN S_Stage_I
    ELSE S_Stage_Unknown

stageGallbladderCancer(features) ==
    LET T == GallbladderT(features)
        N == GallbladderN(features)
        M == MStage(features)
        stage == GallbladderStage(T, N, M)
    IN  TNMStaging(T, N, M, stage, getGallbladderStageDescription(stage))

\* depthToT[features.tumor_depth.toLowerCase()] || 'Tx'
EsophagealT(features) ==
    LET depth == toLowerCase(features.tumor_depth)
    IN  CASE depth = S_mucosa              -> S_T1
          [] depth = S_submucosa           -> S_T1b
          [] depth = S_muscularis          -> S_T2
          [] depth = S_adventitia          -> S_T3
          [] depth = S_adjacent_structures -> S_T4
          [] OTHER                         -> S_Tx

EsophagealN(features) ==
    IF features.lymph_nodes_involved = 0 THEN S_N0
    ELSE IF features.lymph_nodes_involved <= 2 THEN S_N1
    ELSE IF features.lymph_nodes_involved <= 6 THEN S_N2
    ELSE S_N3

EsophagealStage(T, N, M) ==
    IF M = S_M1 THEN S_Stage_IVB
    ELSE IF T = S_T4 \/ N = S_N3 THEN S_Stage_IVA
    ELSE IF T \in {S_T2, S_T3} /\ N \in {S_N0, S_N1} THEN S_Stage_II
    ELSE IF T = S_T1 /\ N = S_N0 THEN S_Stage_I
    ELSE S_Stage_III

stageEsophagealCancer(features) ==
    LET T == EsophagealT(features)
        N == EsophagealN(features)
        M == MStage(features)
        stage == EsophagealStage(T, N, M)
    IN  TNMStaging(T, N, M, stage, getEsophagealStageDescription(stage))

BreastT(features) ==
    IF features.tumor_size_cm <= Cm(2) THEN S_T1
    ELSE IF features.tumor_size_cm <= Cm(5) THEN S_T2
    ELSE S_T3

BreastN(features) ==
    IF features.lymph_nodes_involved = 0 THEN S_N0
    ELSE IF features.lymph_nodes_involved <= 3 THEN S_N1
    ELSE IF features.lymph_nodes_involved <= 9 THEN S_N2
    ELSE S_N3

\* variant: the early-stage rows are tried before the metastasis row
BreastStage_MetastasisLast(T, N, M) ==
    IF T = S_T1 /\ N = S_N0 THEN S_Stage_I
    ELSE IF T \in {S_T1, S_T2} /\ N = S_N1 THEN S_Stage_II
    ELSE IF M = S_M1 THEN S_Stage_IV
    ELSE IF T = S_T3 \/ N \in {S_N2, S_N3} THEN S_Stage_III
    ELSE S_Stage_Unknown

BreastStage(T, N, M) ==
    IF M = S_M1 THEN S_Stage_IV
    ELSE IF T = S_T1 /\ N = S_N0 THEN S_Stage_I
    ELSE IF T \in {S_T1, S_T2} /\ N = S_N1 THEN S_Stage_II
    ELSE IF T = S_T3 \/ N \in {S_N2, S_N3} THEN S_Stage_III
    ELSE S_Stage_Unknown

stageBreastCancer(features) ==
    LET T == BreastT(features)
        N == BreastN(features)
        M == MStage(features)
        stage == BreastStage(T, N, M)
    IN  TNMStaging(T, N, M, stage, getBreastStageDescription(stage))

\* variant: the upper bounds of the size ranges are exclusive
LungT_ExclusiveBounds(features) ==
    IF features.tumor_size_cm < Cm(3) THEN S_T1
    ELSE IF features.tumor_size_cm < Cm(5) THEN S_T2
    ELSE IF features.tumor_size_cm < Cm(7) THEN S_T3
    ELSE S_T4

LungT(features) ==
    IF features.tumor_size_cm <= Cm(3) THEN S_T1
    ELSE IF features.tumor_size_cm <= Cm(5) THEN S_T2
    ELSE IF features.tumor_size_cm <= Cm(7) THEN S_T3
    ELSE S_T4

LungN(features) ==
    IF features.lymph_nodes_involved = 0 THEN S_N0
    ELSE IF features.lymph_nodes_involved <= 3 THEN S_N1
    ELSE S_N2

LungStage(T, N, M) ==
    IF M = S_M1 THEN S_Stage_IV
    ELSE IF T = S_T1 /\ N = S_N0 THEN S_Stage_I
    ELSE IF T \in {S_T2, S_T3} /\ N \in {S_N0, S_N1} THEN S_Stage_II
    ELSE IF T \in {S_T3, S_T4} \/ N = S_N2 THEN S_Stage_III
    ELSE S_Stage_Unknown

stageLungCancer(features) ==
    LET T == LungT(features)
        N == LungN(features)
        M == MStage(features)
        stage == LungStage(T, N, M)
    IN  TNMStaging(T, N, M, stage, getLungStageDescription(stage))

\* depthToT[features.tumor_depth.toLowerCase()] || 'Tx'
ColorectalT(features) ==
    LET depth == toLowerCase(features.tumor_depth)
    IN  CASE depth = S_submucosa           -> S_T1
          [] depth = S_muscularis_propria  -> S_T2
          [] depth = S_subserosa           -> S_T3
          [] depth = S_peritoneum_invasion -> S_T4
          [] OTHER                         -> S_Tx

ColorectalN(features) ==
    IF features.lymph_nodes_involved = 0 THEN S_N0
    ELSE IF features.lymph_nodes_involved <= 3 THEN S_N1
    ELSE S_N2

ColorectalStage(T, N, M) ==
    IF M = S_M1 THEN S_Stage_IV
    ELSE IF T \in {S_T1, S_T2} /\ N = S_N0 THEN S_Stage_I
    ELSE IF T = S_T3 /\ N = S_N0 THEN S_Stage_II
    ELSE IF N \in {S_N1, S_N2} THEN S_Stage_III
    ELSE S_Stage_Unknown

stageColorectalCancer(features) ==
    LET T == ColorectalT(features)
        N == ColorectalN(features)
        M == MStage(features)
        stage == ColorectalStage(T, N, M)
    IN  TNMStaging(T, N, M, stage, getColorectalStageDescription(stage))

HeadNeckT(features) ==
    IF features.tumor_size_cm <= Cm(2) THEN S_T1
    ELSE IF features.tumor_size_cm <= Cm(4) THEN S_T2
    ELSE S_T3

\* variant: two involved nodes are still N1
HeadNeckN_TwoNodesN1(features) ==
    IF features.lymph_nodes_involved = 0 THEN S_N0
    ELSE IF features.lymph_nodes_involved <= 2 THEN S_N1
    ELSE IF features.lymph_nodes_involved <= 3 THEN S_N2
    ELSE S_N3

HeadNeckN(features) ==
    IF features.lymph_nodes_involved = 0 THEN S_N0
    ELSE IF features.lymph_nodes_involved = 1 THEN S_N1
    ELSE IF features.lymph_nodes_involved <= 3 THEN S_N2
    ELSE S_N3

HeadNeckStage(T, N, M) ==
    IF M = S_M1 THEN S_Stage_IVC
    ELSE IF T = S_T1 /\ N = S_N0 THEN S_Stage_I
    ELSE IF T \in {S_T1, S_T2} /\ N \in {S_N1, S_N2} THEN S_Stage_II_III
    ELSE IF T = S_T3 \/ N = S_N3 THEN S_Stage_IV
    ELSE S_Stage_Unknown

stageHeadNeckCancer(features) ==
    LET T == HeadNeckT(features)
        N == HeadNeckN(features)
        M == MStage(features)
        stage == HeadNeckStage(T, N, M)
    IN  TNMStaging(T, N, M, stage, getHeadNeckStageDescription(stage))

\* the default branch of the switch: `Staging not available for ${cancerType}`
\* variant: the description is built from the lower-cased name
StagingNotAvailable_LowerCased(cancerType) ==
    TNMStaging(S_Unknown, S_Unknown, S_Unknown, S_Not_available,
               S_Staging_not_available_for \o toLowerCase(cancerType))

StagingNotAvailable(cancerType) ==
    TNMStaging(S_Unknown, S_Unknown, S_Unknown, S_Not_available,
               S_Staging_not_available_for \o cancerType)

\* variant: the switch is made on cancerType as given, without toLowerCase
determineTNMStage_CaseSensitive(cancerType, features) ==
    CASE cancerType = S_gallbladder -> stageGallbladderCancer(features)
      [] cancerType = S_esophageal  -> stageEsophagealCancer(features)
      [] cancerType = S_breast      -> stageBreastCancer(features)
      [] cancerType = S_lung        -> stageLungCancer(features)
      [] cancerType = S_colorectal  -> stageColorectalCancer(features)
      [] cancerType \in {S_head_and_neck, S_oral_cavity, S_oropharynx}
                                    -> stageHeadNeckCancer(features)
      [] OTHER                      -> StagingNotAvailable(cancerType)

determineTNMStage(cancerType, features) ==
    LET type == toLowerCase(cancerType)
    IN  CASE type = S_gallbladder -> stageGallbladderCancer(features)
          [] type = S_esophageal  -> stageEsophagealCancer(features)
          [] type = S_breast      -> stageBreastCancer(features)
          [] type = S_lung        -> stageLungCancer(features)
          [] type = S_colorectal  -> stageColorectalCancer(features)
          [] type \in {S_head_and_neck, S_oral_cavity, S_oropharynx}
                                  -> stageHeadNeckCancer(features)
          [] OTHER                -> StagingNotAvailable(cancerType)

(***************************************************************************)
(* getTreatmentGuidelines                                                  *)
(***************************************************************************)
\* part_000:558: 'Surgical resection (simple cholecystectomy or wedge resection).'
TX_gallbladder_I ==
    <<"S", "u", "r", "g", "i", "c", "a", "l", " ", "r", "e", "s", "e", "c", "t", "i", "o", "n",
      " ", "(", "s", "i", "m", "p", "l", "e", " ", "c", "h", "o", "l", "e", "c", "y", "s", "t",
      "e", "c", "t", "o", "m", "y", " ", "o", "r", " ", "w", "e", "d", "g", "e", " ", "r", "e",
      "s", "e", "c", "t", "i", "o", "n", ")", ".">>

\* part_000:559: 'Extended cholecystectomy with lymph node dissection.'
TX_gallbladder_II ==
    <<"E", "x", "t", "e", "n", "d", "e", "d", " ", "c", "h", "o", "l", "e", "c", "y", "s", "t",
      "e", "c", "t", "o", "m", "y", " ", "w", "i", "t", "h", " ", "l", "y", "m", "p", "h", " ",
      "n", "o", "d", "e", " ", "d", "i", "s", "s", "e", "c", "t", "i", "o", "n", ".">>

\* part_000:560: 'Surgical resection ? adjuvant chemoradiotherapy.'
TX_gallbladder_III ==
    <<"S", "u", "r", "g", "i", "c", "a", "l", " ", "r", "e", "s", "e", "c", "t", "i", "o", "n",
      " ", "U+00B1", " ", "a", "d", "j", "u", "v", "a", "n", "t", " ", "c", "h", "e", "m", "o",
      "r", "a", "d", "i", "o", "t", "h", "e", "r", "a", "p", "y", ".">>

\* part_000:561: 'Systemic chemotherapy (e.g., gemcitabine + cisplatin).'
TX_gallbladder_IV ==
    <<"S", "y", "s", "t", "e", "m", "i", "c", " ", "c", "h", "e", "m", "o", "t", "h", "e", "r",
      "a", "p", "y", " ", "(", "e", ".", "g", ".", ",", " ", "g", "e", "m", "c", "i", "t", "a",
      "b", "i", "n", "e", " ", "+", " ", "c", "i", "s", "p", "l", "a", "t", "i", "n", ")", ".">>

\* part_000:564: 'Endoscopic mucosal resection or esophagectomy.'
TX_esophageal_I ==
    <<"E", "n", "d", "o", "s", "c", "o", "p", "i", "c", " ", "m", "u", "c", "o", "s", "a", "l",
      " ", "r", "e", "s", "e", "c", "t", "i", "o", "n", " ", "o", "r", " ", "e", "s", "o", "p",
      "h", "a", "g", "e", "c", "t", "o", "m", "y", ".">>

\* part_000:565: 'Neoadjuvant chemoradiotherapy followed by surgery.'
TX_esophageal_II ==
    <<"N", "e", "o", "a", "d", "j", "u", "v", "a", "n", "t", " ", "c", "h", "e", "m", "o", "r",
      "a", "d", "i", "o", "t", "h", "e", "r", "a", "p", "y", " ", "f", "o", "l", "l", "o", "w",
      "e", "d", " ", "b", "y", " ", "s", "u", "r", "g", "e", "r", "y", ".">>

\* part_000:566: 'Definitive chemoradiation or surgery after neoadjuvant therapy.'
TX_esophageal_III ==
    <<"D", "e", "f", "i", "n", "i", "t", "i", "v", "e", " ", "c", "h", "e", "m", "o", "r", "a",
      "d", "i", "a", "t", "i", "o", "n", " ", "o", "r", " ", "s", "u", "r", "g", "e", "r", "y",
      " ", "a", "f", "t", "e", "r", " ", "n", "e", "o", "a", "d", "j", "u", "v", "a", "n", "t",
      " ", "t", "h", "e", "r", "a", "p", "y", ".">>

\* part_000:567: 'Systemic therapy or palliative RT/stent placement.'
TX_esophageal_IV ==
    <<"S", "y", "s", "t", "e", "m", "i", "c", " ", "t", "h", "e", "r", "a", "p", "y", " ", "o",
      "r", " ", "p", "a", "l", "l", "i", "a", "t", "i", "v", "e", " ", "R", "T", "/", "s", "t",
      "e", "n", "t", " ", "p", "l", "a", "c", "e", "m", "e", "n", "t", ".">>

\* part_000:570: 'Surgery (BCS or mastectomy) ? adjuvant RT.'
TX_breast_I ==
    <<"S", "u", "r", "g", "e", "r", "y", " ", "(", "B", "C", "S", " ", "o", "r", " ", "m", "a",
      "s", "t", "e", "c", "t", "o", "m", "y", ")", " ", "U+00B1", " ", "a", "d", "j", "u", "v",
      "a", "n", "t", " ", "R", "T", ".">>

\* part_000:571: 'Surgery + chemo/hormonal therapy + radiation.'
TX_breast_II ==
    <<"S", "u", "r", "g", "e", "r", "y", " ", "+", " ", "c", "h", "e", "m", "o", "/", "h", "o",
      "r", "m", "o", "n", "a", "l", " ", "t", "h", "e", "r", "a", "p", "y", " ", "+", " ", "r",
      "a", "d", "i", "a", "t", "i", "o", "n", ".">>

\* part_000:572: 'Neoadjuvant chemotherapy ? surgery + adjuvant therapy.'
TX_breast_III ==
    <<"N", "e", "o", "a", "d", "j", "u", "v", "a", "n", "t", " ", "c", "h", "e", "m", "o", "t",
      "h", "e", "r", "a", "p", "y", " ", "U+2192", " ", "s", "u", "r", "g", "e", "r", "y", " ",
      "+", " ", "a", "d", "j", "u", "v", "a", "n", "t", " ", "t", "h", "e", "r", "a", "p", "y",
      ".">>

\* part_000:573: 'Systemic therapy based on biomarkers.'
TX_breast_IV ==
    <<"S", "y", "s", "t", "e", "m", "i", "c", " ", "t", "h", "e", "r", "a", "p", "y", " ", "b",
      "a", "s", "e", "d", " ", "o", "n", " ", "b", "i", "o", "m", "a", "r", "k", "e", "r", "s",
      ".">>

\* part_000:576: 'Surgical resection ? adjuvant chemo.'
TX_lung_I ==
    <<"S", "u", "r", "g", "i", "c", "a", "l", " ", "r", "e", "s", "e", "c", "t", "i", "o", "n",
      " ", "U+00B1", " ", "a", "d", "j", "u", "v", "a", "n", "t", " ", "c", "h", "e", "m", "o",
      ".">>

\* part_000:577: 'Surgery + chemo ? radiation.'
TX_lung_II ==
    <<"S", "u", "r", "g", "e", "r", "y", " ", "+", " ", "c", "h", "e", "m", "o", " ", "U+00B1",
      " ", "r", "a", "d", "i", "a", "t", "i", "o", "n", ".">>

\* part_000:578: 'Concurrent chemoradiotherapy ? immunotherapy.'
TX_lung_III ==
    <<"C", "o", "n", "c", "u", "r", "r", "e", "n", "t", " ", "c", "h", "e", "m", "o", "r", "a",
      "d", "i", "o", "t", "h", "e", "r", "a", "p", "y", " ", "U+00B1", " ", "i", "m", "m", "u",
      "n", "o", "t", "h", "e", "r", "a", "p", "y", ".">>

\* part_000:579: 'Targeted therapy, immunotherapy, or chemo.'
TX_lung_IV ==
    <<"T", "a", "r", "g", "e", "t", "e", "d", " ", "t", "h", "e", "r", "a", "p", "y", ",", " ",
      "i", "m", "m", "u", "n", "o", "t", "h", "e", "r", "a", "p", "y", ",", " ", "o", "r", " ",
      "c", "h", "e", "m", "o", ".">>

\* part_000:582: 'Surgical resection (segmental colectomy).'
TX_colorectal_I ==
    <<"S", "u", "r", "g", "i", "c", "a", "l", " ", "r", "e", "s", "e", "c", "t", "i", "o", "n",
      " ", "(", "s", "e", "g", "m", "e", "n", "t", "a", "l", " ", "c", "o", "l", "e", "c", "t",
      "o", "m", "y", ")", ".">>

\* part_000:583: 'Surgery ? adjuvant chemo (if high-risk).'
TX_colorectal_II ==
    <<"S", "u", "r", "g", "e", "r", "y", " ", "U+00B1", " ", "a", "d", "j", "u", "v", "a", "n",
      "t", " ", "c", "h", "e", "m", "o", " ", "(", "i", "f", " ", "h", "i", "g", "h", "-", "r",
      "i", "s", "k", ")", ".">>

\* part_000:584: 'Surgery + adjuvant FOLFOX or CAPOX.'
TX_colorectal_III ==
    <<"S", "u", "r", "g", "e", "r", "y", " ", "+", " ", "a", "d", "j", "u", "v", "a", "n", "t",
      " ", "F", "O", "L", "F", "O", "X", " ", "o", "r", " ", "C", "A", "P", "O", "X", ".">>

\* part_000:585: 'Systemic therapy ? targeted therapy.'
TX_colorectal_IV ==
    <<"S", "y", "s", "t", "e", "m", "i", "c", " ", "t", "h", "e", "r", "a", "p", "y", " ",
      "U+00B1", " ", "t", "a", "r", "g", "e", "t", "e", "d", " ", "t", "h", "e", "r", "a", "p",
      "y", ".">>

\* part_000:588: 'Surgery or radiation alone.'
TX_head_and_neck_I ==
    <<"S", "u", "r", "g", "e", "r", "y", " ", "o", "r", " ", "r", "a", "d", "i", "a", "t", "i",
      "o", "n", " ", "a", "l", "o", "n", "e", ".">>

\* part_000:589: 'Surgery ? adjuvant RT.'
TX_head_and_neck_II ==
    <<"S", "u", "r", "g", "e", "r", "y", " ", "U+00B1", " ", "a", "d", "j", "u", "v", "a", "n",
      "t", " ", "R", "T", ".">>

\* part_000:590: 'Surgery + RT/chemo or concurrent chemoradiation.'
TX_head_and_neck_III ==
    <<"S", "u", "r", "g", "e", "r", "y", " ", "+", " ", "R", "T", "/", "c", "h", "e", "m", "o",
      " ", "o", "r", " ", "c", "o", "n", "c", "u", "r", "r", "e", "n", "t", " ", "c", "h", "e",
      "m", "o", "r", "a", "d", "i", "a", "t", "i", "o", "n", ".">>

\* part_000:591: 'Systemic therapy ? RT. Consider immunotherapy.'
TX_head_and_neck_IV ==
    <<"S", "y", "s", "t", "e", "m", "i", "c", " ", "t", "h", "e", "r", "a", "p", "y", " ",
      "U+00B1", " ", "R", "T", ".", " ", "C", "o", "n", "s", "i", "d", "e", "r", " ", "i", "m",
      "m", "u", "n", "o", "t", "h", "e", "r", "a", "p", "y", ".">>

\* part_000:607: 'Treatment information not available.'
TX_not_available ==
    <<"T", "r", "e", "a", "t", "m", "e", "n", "t", " ", "i", "n", "f", "o", "r", "m", "a", "t",
      "i", "o", "n", " ", "n", "o", "t", " ", "a", "v", "a", "i", "l", "a", "b", "l", "e", ".">>

\* const treatmentDict
treatmentDict ==
    (S_gallbladder :>
        [I |-> TX_gallbladder_I, II |-> TX_gallbladder_II, III |-> TX_gallbladder_III, IV |-> TX_gallbladder_IV]) @@
    (S_esophageal :>
        [I |-> TX_esophageal_I, II |-> TX_esophageal_II, III |-> TX_esophageal_III, IV |-> TX_esophageal_IV]) @@
    (S_breast :>
        [I |-> TX_breast_I, II |-> TX_breast_II, III |-> TX_breast_III, IV |-> TX_breast_IV]) @@
    (S_lung :>
        [I |-> TX_lung_I, II |-> TX_lung_II, III |-> TX_lung_III, IV |-> TX_lung_IV]) @@
    (S_colorectal :>
        [I |-> TX_colorectal_I, II |-> TX_colorectal_II, III |-> TX_colorectal_III, IV |-> TX_colorectal_IV]) @@
    (S_head_and_neck :>
        [I |-> TX_head_and_neck_I, II |-> TX_head_and_neck_II, III |-> TX_head_and_neck_III, IV |-> TX_head_and_neck_IV])

\* let stageGroup = 'Unknown' and the chain of tests that follows
stageGroup(stage) ==
    IF includes(stage, <<"I">>) /\ ~includes(stage, <<"V">>) THEN "I"
    ELSE IF includes(stage, <<"I", "I">>) THEN "II"
    ELSE IF includes(stage, <<"I", "I", "I">>) THEN "III"
    ELSE IF includes(stage, <<"I", "V">>) THEN "IV"
    ELSE "Unknown"

\* treatmentDict[cancerType]?.[stageGroup] || 'Treatment information not available.'
getTreatmentGuidelines(cancerType, stage) ==
    LET group == stageGroup(stage)
    IN  IF cancerType \in DOMAIN treatmentDict /\ group \in DOMAIN treatmentDict[cancerType]
        THEN treatmentDict[cancerType][group]
        ELSE TX_not_available

(***************************************************************************)
(* Inputs of the staging engine                                            *)
(***************************************************************************)
MaxSizeCm == 8

MaxNodes == 10

\* first letter in upper case, as a report or a caller may write a name
Capitalize(s) == [i \in 1..Len(s) |-> IF i = 1 THEN toUpperCaseChar(s[i]) ELSE s[i]]

Casings(s) == {s, toUpperCase(s), Capitalize(s)}

\* the case labels of the switch in determineTNMStage
StagedTypeNames ==
    {S_gallbladder, S_esophageal, S_breast, S_lung, S_colorectal,
     S_head_and_neck, S_oral_cavity, S_oropharynx}

\* the keys of cancerKeywords: the non-empty results of extractCancerType
ExtractedTypeNames ==
    {S_gallbladder, S_esophageal, S_breast, S_lung, S_colorectal, S_head_and_neck}

\* names with no case label; the empty string is extractCancerType's "no type"
OtherTypeNames ==
    {<<>>,
     <<"p", "r", "o", "s", "t", "a", "t", "e">>,
     <<"l", "u", "n", "g", " ", "c", "a", "n", "c", "e", "r">>}

CancerTypeInputs == UNION {Casings(s) : s \in StagedTypeNames \cup OtherTypeNames}

DepthInputs ==
    {<<>>, S_mucosa, S_submucosa, S_muscularis, S_subserosa, S_serosa, S_adventitia,
     S_adjacent_structures, S_muscularis_propria, S_peritoneum_invasion,
     Capitalize(S_submucosa)}

FeatureInputs ==
    [cancer_type          : {<<>>},
     tumor_size_cm        : {Cm(k) : k \in 0..MaxSizeCm},
     lymph_nodes_involved : 0..MaxNodes,
     distant_metastasis   : BOOLEAN,
     liver_invasion       : BOOLEAN,
     tumor_depth          : DepthInputs]

(***************************************************************************)
(* Report texts that the PDF, DOCX and OCR libraries return in the model   *)
(***************************************************************************)
\* a short report: 'Lung mass measuring 3.5 cm with 2 enlarged lymph nodes. No distant metastasis.'
L_lung ==
    <<"L", "u", "n", "g", " ", "m", "a", "s", "s", " ", "m", "e", "a", "s", "u", "r", "i", "n",
      "g", " ", "3", ".", "5", " ", "c", "m", " ", "w", "i", "t", "h", " ", "2", " ", "e", "n",
      "l", "a", "r", "g", "e", "d", " ", "l", "y", "m", "p", "h", " ", "n", "o", "d", "e", "s",
      ".", " ", "N", "o", " ", "d", "i", "s", "t", "a", "n", "t", " ", "m", "e", "t", "a", "s",
      "t", "a", "s", "i", "s", ".">>

\* the short report as an OCR engine returns it, with a final line break
R_lung == L_lung \o <<"\n">>

\* a page of exactly 50 characters: 'Rectal growth measuring 45 mm, invading submucosa.'
R_rectal ==
    <<"R", "e", "c", "t", "a", "l", " ", "g", "r", "o", "w", "t", "h", " ", "m", "e", "a", "s",
      "u", "r", "i", "n", "g", " ", "4", "5", " ", "m", "m", ",", " ", "i", "n", "v", "a", "d",
      "i", "n", "g", " ", "s", "u", "b", "m", "u", "c", "o", "s", "a", ".">>

\* a page of exactly 100 characters: 'Breast lesion sized 2.4 cm, upper outer quadrant. Several positive lymph nodes. No metastasis found.'
R_breast ==
    <<"B", "r", "e", "a", "s", "t", " ", "l", "e", "s", "i", "o", "n", " ", "s", "i", "z", "e",
      "d", " ", "2", ".", "4", " ", "c", "m", ",", " ", "u", "p", "p", "e", "r", " ", "o", "u",
      "t", "e", "r", " ", "q", "u", "a", "d", "r", "a", "n", "t", ".", " ", "S", "e", "v", "e",
      "r", "a", "l", " ", "p", "o", "s", "i", "t", "i", "v", "e", " ", "l", "y", "m", "p", "h",
      " ", "n", "o", "d", "e", "s", ".", " ", "N", "o", " ", "m", "e", "t", "a", "s", "t", "a",
      "s", "i", "s", " ", "f", "o", "u", "n", "d", ".">>

\* a report of more than 100 characters: 'PET/CT report. Carcinoma of the gallbladder with hepatic invasion. The mass measures 4.2 x 3.1 cm. Multiple enlarged lymph nodes. Distant metastases in the lung.'
R_gallbladder ==
    <<"P", "E", "T", "/", "C", "T", " ", "r", "e", "p", "o", "r", "t", ".", " ", "C", "a", "r",
      "c", "i", "n", "o", "m", "a", " ", "o", "f", " ", "t", "h", "e", " ", "g", "a", "l", "l",
      "b", "l", "a", "d", "d", "e", "r", " ", "w", "i", "t", "h", " ", "h", "e", "p", "a", "t",
      "i", "c", " ", "i", "n", "v", "a", "s", "i", "o", "n", ".", " ", "T", "h", "e", " ", "m",
      "a", "s", "s", " ", "m", "e", "a", "s", "u", "r", "e", "s", " ", "4", ".", "2", " ", "x",
      " ", "3", ".", "1", " ", "c", "m", ".", " ", "M", "u", "l", "t", "i", "p", "l", "e", " ",
      "e", "n", "l", "a", "r", "g", "e", "d", " ", "l", "y", "m", "p", "h", " ", "n", "o", "d",
      "e", "s", ".", " ", "D", "i", "s", "t", "a", "n", "t", " ", "m", "e", "t", "a", "s", "t",
      "a", "s", "e", "s", " ", "i", "n", " ", "t", "h", "e", " ", "l", "u", "n", "g", ".">>

\* white space only: ' \n'
R_blank ==
    <<" ", "\n">>

(***************************************************************************)
(* Lines of reports for extractMetastasis and for the depth of invasion    *)
(***************************************************************************)
\* a mention of metastasis: 'Liver metastases are seen.'
M_mention ==
    <<"L", "i", "v", "e", "r", " ", "m", "e", "t", "a", "s", "t", "a", "s", "e", "s", " ", "a",
      "r", "e", " ", "s", "e", "e", "n", ".">>

\* a line with the negation 'no ': 'There is no evidence of'
M_negation ==
    <<"T", "h", "e", "r", "e", " ", "i", "s", " ", "n", "o", " ", "e", "v", "i", "d", "e", "n",
      "c", "e", " ", "o", "f">>

\* a line of 28 characters with no mention and no negation: 'The spleen appears unchanged'
M_filler28 ==
    <<"T", "h", "e", " ", "s", "p", "l", "e", "e", "n", " ", "a", "p", "p", "e", "a", "r", "s",
      " ", "u", "n", "c", "h", "a", "n", "g", "e", "d">>

\* a line of 29 characters with no mention and no negation: 'The spleen appears unchanged.'
M_filler29 ==
    <<"T", "h", "e", " ", "s", "p", "l", "e", "e", "n", " ", "a", "p", "p", "e", "a", "r", "s",
      " ", "u", "n", "c", "h", "a", "n", "g", "e", "d", ".">>

\* a mention after the negation 'Without': 'Without disseminated disease.'
M_without ==
    <<"W", "i", "t", "h", "o", "u", "t", " ", "d", "i", "s", "s", "e", "m", "i", "n", "a", "t",
      "e", "d", " ", "d", "i", "s", "e", "a", "s", "e", ".">>

\* a mention before the negation 'absent': 'Metastatic disease is absent.'
M_after ==
    <<"M", "e", "t", "a", "s", "t", "a", "t", "i", "c", " ", "d", "i", "s", "e", "a", "s", "e",
      " ", "i", "s", " ", "a", "b", "s", "e", "n", "t", ".">>

\* a depth: 'Tumor invades the muscularis propria.'
D_muscularis ==
    <<"T", "u", "m", "o", "r", " ", "i", "n", "v", "a", "d", "e", "s", " ", "t", "h", "e", " ",
      "m", "u", "s", "c", "u", "l", "a", "r", "i", "s", " ", "p", "r", "o", "p", "r", "i", "a",
      ".">>

\* a depth: 'Extends into the subserosa.'
D_subserosa ==
    <<"E", "x", "t", "e", "n", "d", "s", " ", "i", "n", "t", "o", " ", "t", "h", "e", " ", "s",
      "u", "b", "s", "e", "r", "o", "s", "a", ".">>

\* a depth with a capital: 'Confined to the Mucosa.'
D_Mucosa ==
    <<"C", "o", "n", "f", "i", "n", "e", "d", " ", "t", "o", " ", "t", "h", "e", " ", "M", "u",
      "c", "o", "s", "a", ".">>

\* a depth: 'Invades the submucosa.'
D_submucosa ==
    <<"I", "n", "v", "a", "d", "e", "s", " ", "t", "h", "e", " ", "s", "u", "b", "m", "u", "c",
      "o", "s", "a", ".">>

\* a depth: 'Reaches the serosa.'
D_serosa ==
    <<"R", "e", "a", "c", "h", "e", "s", " ", "t", "h", "e", " ", "s", "e", "r", "o", "s", "a",
      ".">>

\* a depth: 'Extends to the adventitia.'
D_adventitia ==
    <<"E", "x", "t", "e", "n", "d", "s", " ", "t", "o", " ", "t", "h", "e", " ", "a", "d", "v",
      "e", "n", "t", "i", "t", "i", "a", ".">>

\* a depth of the esophageal table: 'Invades adjacent structures.'
D_adjacent ==
    <<"I", "n", "v", "a", "d", "e", "s", " ", "a", "d", "j", "a", "c", "e", "n", "t", " ", "s",
      "t", "r", "u", "c", "t", "u", "r", "e", "s", ".">>

\* a depth of the colorectal table: 'Peritoneum/invasion is present.'
D_peritoneum ==
    <<"P", "e", "r", "i", "t", "o", "n", "e", "u", "m", "/", "i", "n", "v", "a", "s", "i", "o",
      "n", " ", "i", "s", " ", "p", "r", "e", "s", "e", "n", "t", ".">>

\* the first line of a report: 'Carcinoma of the esophagus.'
R_esophagus ==
    <<"C", "a", "r", "c", "i", "n", "o", "m", "a", " ", "o", "f", " ", "t", "h", "e", " ", "e",
      "s", "o", "p", "h", "a", "g", "u", "s", ".">>

\* the first line of a report: 'Adenocarcinoma of the colon.'
R_colon ==
    <<"A", "d", "e", "n", "o", "c", "a", "r", "c", "i", "n", "o", "m", "a", " ", "o", "f", " ",
      "t", "h", "e", " ", "c", "o", "l", "o", "n", ".">>

(***************************************************************************)
(* components/QASection.tsx: generateAnswer                                *)
(***************************************************************************)
\* ProcessingResult; a field that is absent is Null
ProcessingResult(success, document, feats, staging, ai_analysis, error) ==
    [success |-> success, document |-> document, features |-> feats,
     staging |-> staging, ai_analysis |-> ai_analysis, error |-> error]

\* staging?.stage || fallback
stageOr(results, fallback) ==
    IF results.staging = Null THEN fallback
    ELSE IF results.staging.stage = <<>> THEN fallback
    ELSE results.staging.stage

\* staging?.description || fallback
descriptionOr(results, fallback) ==
    IF results.staging = Null THEN fallback
    ELSE IF results.staging.description = <<>> THEN fallback
    ELSE results.staging.description

\* features?.cancer_type || fallback
cancerTypeOr(results, fallback) ==
    IF results.features = Null THEN fallback
    ELSE IF results.features.cancer_type = <<>> THEN fallback
    ELSE results.features.cancer_type

\* variant: the keywords are looked up in the question as typed
generateAnswer_CaseSensitive(question, results) ==
    IF includes(question, K_stage) THEN
        A_stage_1 \o stageOr(results, S_Unknown) \o A_stage_2
            \o descriptionOr(results, F_staging_information_is_not_available) \o A_stage_3
    ELSE IF includes(question, K_treatment) THEN
        A_treatment_1 \o cancerTypeOr(results, F_cancer) \o A_treatment_2
            \o stageOr(results, F_unknown_stage) \o A_treatment_3
    ELSE IF includes(question, K_mean) \/ includes(question, K_simple) THEN
        A_mean_1 \o stageOr(results, S_Unknown) \o A_mean_2 \o cancerTypeOr(results, F_cancer)
            \o A_mean_3 \o descriptionOr(results, F_More_information_needed) \o A_mean_4
    ELSE IF includes(question, K_next_steps) THEN
        A_next_steps
    ELSE
        A_default_1 \o cancerTypeOr(results, F_cancer) \o A_default_2
            \o stageOr(results, F_unknown_stage) \o A_default_3

generateAnswer(question, results) ==
    LET questionLower == toLowerCase(question)
    IN  IF includes(questionLower, K_stage) THEN
            A_stage_1 \o stageOr(results, S_Unknown) \o A_stage_2
                \o descriptionOr(results, F_staging_information_is_not_available) \o A_stage_3
        ELSE IF includes(questionLower, K_treatment) THEN
            A_treatment_1 \o cancerTypeOr(results, F_cancer) \o A_treatment_2
                \o stageOr(results, F_unknown_stage) \o A_treatment_3
        ELSE IF includes(questionLower, K_mean) \/ includes(questionLower, K_simple) THEN
            A_mean_1 \o stageOr(results, S_Unknown) \o A_mean_2 \o cancerTypeOr(results, F_cancer)
                \o A_mean_3 \o descriptionOr(results, F_More_information_needed) \o A_mean_4
        ELSE IF includes(questionLower, K_next_steps) THEN
            A_next_steps
        ELSE
            A_default_1 \o cancerTypeOr(results, F_cancer) \o A_default_2
                \o stageOr(results, F_unknown_stage) \o A_default_3

(***************************************************************************)
(* Inputs of generateAnswer                                                *)
(***************************************************************************)
MaxWords == 3

\* words a question is made of; "meaning" and "Stage" contain a keyword
\* inside a longer or differently cased word, "next" and "steps" form the
\* keyword 'next steps' only when adjacent in this order
QuestionWords ==
    {<<"S", "t", "a", "g", "e">>,
     <<"t", "r", "e", "a", "t", "m", "e", "n", "t">>,
     <<"m", "e", "a", "n", "i", "n", "g">>,
     <<"s", "i", "m", "p", "l", "e">>,
     <<"n", "e", "x", "t">>,
     <<"s", "t", "e", "p", "s">>,
     <<"w", "h", "a", "t">>}

\* the words of ws joined by single spaces
RECURSIVE JoinWords(_)
JoinWords(ws) ==
    IF ws = <<>> THEN <<>>
    ELSE IF Len(ws) = 1 THEN ws[1]
    ELSE ws[1] \o <<" ">> \o JoinWords(Tail(ws))

QuestionInputs ==
    {JoinWords(ws) : ws \in UNION {[1..n -> QuestionWords] : n \in 0..MaxWords}}

\* features of a report, for a given extracted cancer type
SampleFeatures(type) ==
    [cancer_type          |-> type,
     tumor_size_cm        |-> Cm(4),
     lymph_nodes_involved |-> 1,
     distant_metastasis   |-> FALSE,
     liver_invasion       |-> FALSE,
     tumor_depth          |-> <<>>]

\* results with and without features, staging and identified cancer type
ResultsInputs ==
    {ProcessingResult(TRUE, Null, f, s, Null, Null) :
        f \in {Null, SampleFeatures(<<>>), SampleFeatures(S_lung)},
        s \in {Null, determineTNMStage(S_lung, SampleFeatures(S_lung)),
               determineTNMStage(<<>>, SampleFeatures(<<>>))}}

(***************************************************************************)
(* components/QASection.tsx: the component QASection                       *)
(***************************************************************************)
predefinedQuestions ==
    <<<<"U+D83E", "U+DDFE", " ", "W", "h", "a", "t", " ", "i", "s", " ", "m", "y", " ", "c",
        "a", "n", "c", "e", "r", " ", "s", "t", "a", "g", "e", "?">>,
      <<"U+D83D", "U+DC8A", " ", "W", "h", "a", "t", " ", "t", "r", "e", "a", "t", "m", "e",
        "n", "t", " ", "i", "s", " ", "u", "s", "u", "a", "l", "l", "y", " ", "g", "i", "v",
        "e", "n", "?">>,
      <<"U+D83E", "U+DDE0", " ", "W", "h", "a", "t", " ", "d", "o", "e", "s", " ", "t", "h",
        "i", "s", " ", "m", "e", "a", "n", " ", "i", "n", " ", "s", "i", "m", "p", "l", "e",
        " ", "t", "e", "r", "m", "s", "?">>,
      <<"U+D83D", "U+DCCB", " ", "W", "h", "a", "t", " ", "a", "r", "e", " ", "t", "h", "e",
        " ", "n", "e", "x", "t", " ", "s", "t", "e", "p", "s", "?">>>>

\* the UTF-16 code units of the class of /^[..]\s/: the pattern has no u flag,
\* so each half of a surrogate pair is a member of its own
emojiUnits == {"U+D83D", "U+D83E", "U+DC8A", "U+DCCB", "U+DDE0", "U+DDFE"}

\* question.replace(/^[..]\s/, '')
withoutEmoji(question) ==
    IF Len(question) >= 2 /\ question[1] \in emojiUnits /\ question[2] \in WhiteSpace
    THEN SubSeq(question, 3, Len(question))
    ELSE question

\* QAMessage, without id and timestamp
QAMessage(type, content) == [type |-> type, content |-> content]

\* calls of handleSubmit
MaxSubmissions == 3

\* texts typed into the input: empty, blank, and a question with blanks
\* around it and no keyword
TypedQuestions == {<<>>, <<" ", " ">>, <<" ", "w", "h", "y", " ">>}

\* the results of a lung report and of a report of unidentified type
QAResultsInputs ==
    {ProcessingResult(TRUE, Null, SampleFeatures(type), determineTNMStage(type, SampleFeatures(type)),
                      Null, Null) : type \in {S_lung, <<>>}}

\* QASection after it has been mounted
QASectionInit ==
    /\ messages = <<>>
    /\ currentQuestion = <<>>
    /\ isLoading = FALSE
    /\ answerTimers = <<>>
    /\ qaResults \in QAResultsInputs
    /\ submitted = 0

\* QASection is not in use
QASectionIdle ==
    /\ messages = <<>>
    /\ currentQuestion = <<>>
    /\ isLoading = FALSE
    /\ answerTimers = <<>>
    /\ qaResults = Null
    /\ submitted = 0

\* a quick question button is clicked; the buttons are not disabled
handleQuestionSelect ==
    /\ \E i \in 1..Len(predefinedQuestions) :
          currentQuestion' = withoutEmoji(predefinedQuestions[i])
    /\ UNCHANGED <<messages, isLoading, answerTimers, qaResults, submitted>>

\* onChange of the input, which is disabled while isLoading
QuestionTyped ==
    /\ ~isLoading
    /\ \E text \in TypedQuestions : currentQuestion' = text
    /\ UNCHANGED <<messages, isLoading, answerTimers, qaResults, submitted>>

\* the parent renders QASection with other results
ResultsReplaced ==
    /\ \E r \in QAResultsInputs : r # qaResults /\ qaResults' = r
    /\ UNCHANGED <<messages, currentQuestion, isLoading, answerTimers, submitted>>

\* variant: a submission is accepted while an answer is awaited
handleSubmit_WhileLoading ==
    /\ submitted < MaxSubmissions
    /\ submitted' = submitted + 1
    /\ IF trim(currentQuestion) = <<>>
       THEN UNCHANGED <<messages, isLoading, answerTimers>>
       ELSE /\ messages' = Append(messages, QAMessage("user", currentQuestion))
            /\ isLoading' = TRUE
            /\ answerTimers' = Append(answerTimers,
                                      [currentQuestion |-> currentQuestion, results |-> qaResults])
    /\ UNCHANGED <<currentQuestion, qaResults>>

\* handleSubmit up to setTimeout: the callback keeps the currentQuestion and
\* the results of the render the handler belongs to
handleSubmit ==
    /\ submitted < MaxSubmissions
    /\ submitted' = submitted + 1
    /\ IF trim(currentQuestion) = <<>> \/ isLoading
       THEN UNCHANGED <<messages, isLoading, answerTimers>>
       ELSE /\ messages' = Append(messages, QAMessage("user", currentQuestion))
            /\ isLoading' = TRUE
            /\ answerTimers' = Append(answerTimers,
                                      [currentQuestion |-> currentQuestion, results |-> qaResults])
    /\ UNCHANGED <<currentQuestion, qaResults>>

\* the callback of setTimeout(.., 1500); timers of equal delay fire in the
\* order they were set
AnswerTimerFired ==
    /\ answerTimers # <<>>
    /\ LET answer == generateAnswer(Head(answerTimers).currentQuestion, Head(answerTimers).results)
       IN  messages' = Append(messages, QAMessage("assistant", answer))
    /\ isLoading' = FALSE
    /\ currentQuestion' = <<>>
    /\ answerTimers' = Tail(answerTimers)
    /\ UNCHANGED <<qaResults, submitted>>
(***************************************************************************)
(* lib/document-processor.ts: DocumentProcessor.  A method call is a       *)
(* record of calls; it advances at each await whose continuation reads or  *)
(* writes tesseractWorker.  Awaits of library promises that touch no field *)
(* of the processor are taken together with the step that follows them.    *)
(* Confidences are in units of 0.01.  processing_time (a clock difference) *)
(* is left out of OCRResult.  A call that has ended is handed to its       *)
(* caller in `returned'.                                                    *)
(***************************************************************************)
MaxCalls == 2

MaxStarts == 2

CallIds == 1..MaxCalls

\* this.tesseractWorker = null
NoWorker == 0

OCRResult(text, confidence, method, page_count, file) ==
    [text |-> text, confidence |-> confidence, method |-> method, page_count |-> page_count,
     file_info |-> [name |-> file.name, size |-> file.size, type |-> file.type]]

\* the catch clauses of processDocument, processPDF, processDOCX, processImageBlob
processDocumentError(error) ==
    Error(E_Document_processing_failed \o messageOf(error, E_Unknown_error))

processPDFError(error) ==
    Error(E_PDF_processing_failed \o messageOf(error, E_Unknown_error))

processDOCXError(error) ==
    Error(E_DOCX_processing_failed \o messageOf(error, E_Unknown_error))

processImageBlobError(error) ==
    Error(E_OCR_processing_failed \o messageOf(error, E_Unknown_error))

\* a call that has not been made
IdleCall ==
    [op |-> "none", pc |-> "idle", file |-> Null, path |-> "none", libs |-> {},
     pageCount |-> 1, worker |-> NoWorker, result |-> Null,
     pdf |-> <<>>, rendered |-> 0, data |-> Null]

\* the slot of call c can take a new call
Free(c) == calls[c].pc = "idle"

Finish(call, result) == [call EXCEPT !.pc = "done", !.result = result]

\* an error thrown inside processImageBlob, as it leaves processDocument: it is
\* wrapped by processImageBlob, by processPDF for a scanned PDF, and by
\* processDocument
OcrFailure(call, error) ==
    IF call.path = "pdf"
    THEN processDocumentError(processPDFError(processImageBlobError(error)))
    ELSE processDocumentError(processImageBlobError(error))

\* processImageBlob up to the await in initializeTesseract: createWorker is
\* invoked when the field is null
BeginOCR(call, path) ==
    IF tesseractWorker = NoWorker
    THEN [call EXCEPT !.pc = "createWorker", !.path = path, !.libs = @ \cup {"tesseract"}]
    ELSE [call EXCEPT !.pc = "initialized", !.path = path]

\* variant: the dispatch compares the lower-cased file type
processDocument_Begin_LowerCased(file) ==
    LET call == [IdleCall EXCEPT !.op = "processDocument", !.file = file]
        type == toLowerCase(file.type)
    IN  IF type = S_application_pdf THEN [call EXCEPT !.pc = "pdf"]
        ELSE IF type = S_docx_mime THEN [call EXCEPT !.pc = "docx"]
        ELSE IF startsWith(type, S_image_slash) THEN BeginOCR(call, "image")
        ELSE Finish(call, Thrown(processDocumentError(Error(E_Unsupported_file_type))))

\* processDocument up to its first await: the dispatch on file.type
processDocument_Begin(file) ==
    LET call == [IdleCall EXCEPT !.op = "processDocument", !.file = file]
    IN  IF file.type = S_application_pdf THEN [call EXCEPT !.pc = "pdf"]
        ELSE IF file.type = S_docx_mime THEN [call EXCEPT !.pc = "docx"]
        ELSE IF startsWith(file.type, S_image_slash) THEN BeginOCR(call, "image")
        ELSE Finish(call, Thrown(processDocumentError(Error(E_Unsupported_file_type))))

\* variant: a text of exactly 100 characters is sufficient
sufficientText_From100(text) == Len(trim(text)) >= 100

\* if (text.trim().length > 100)
sufficientText(text) == Len(trim(text)) > 100

\* text += pageText + '\n' for each page
RECURSIVE pdfText(_)
pdfText(pages) ==
    IF pages = <<>> THEN <<>> ELSE pages[1] \o <<"\n">> \o pdfText(Tail(pages))

(***************************************************************************)
(* What the libraries answer                                               *)
(***************************************************************************)
\* rejections of a library promise: an Error, or a value that is not an Error
LibraryFailures ==
    {Error(<<"I", "n", "v", "a", "l", "i", "d", " ", "d", "a", "t", "a">>), NonError}

\* the TypeError of reading a property of null
E_null_recognize ==
    <<"C", "a", "n", "n", "o", "t", " ", "r", "e", "a", "d", " ", "p", "r", "o", "p", "e", "r",
      "t", "i", "e", "s", " ", "o", "f", " ", "n", "u", "l", "l">>

\* the pages of a PDF document: one page of 50 or of 100 characters, two pages
\* that make 101 or 151 characters with their line breaks
PdfDocuments ==
    {<<R_rectal>>, <<R_breast>>, <<R_rectal, R_rectal>>, <<R_rectal, R_breast>>}

\* mammoth.extractRawText(...).value
DocxValues == {R_blank, R_lung, R_gallbladder}

\* worker.recognize(...).data: text, and confidence between 0 and 100, here
\* 0 and 87 in units of 0.01
OcrTexts == {R_blank, R_lung}

OcrConfidences == {0, 8700}

(***************************************************************************)
(* processDocument: PDF                                                    *)
(***************************************************************************)
\* call c moves on to `next'; a call that has ended leaves its slot and is
\* handed to the caller in `returned'
Step(c, next) ==
    IF next.pc = "done"
    THEN calls' = [calls EXCEPT ![c] = IdleCall] /\ returned' = next
    ELSE calls' = [calls EXCEPT ![c] = next] /\ UNCHANGED returned

\* file.arrayBuffer() or a pdf.js promise is rejected
PdfFailed(c) ==
    /\ calls[c].pc = "pdf"
    /\ \E error \in LibraryFailures, invoked \in BOOLEAN :
          Step(c, Finish([calls[c] EXCEPT !.libs = IF invoked THEN {"pdfjs"} ELSE {}],
                         Thrown(processDocumentError(processPDFError(error)))))
    /\ UNCHANGED <<tesseractWorker, workersCreated, terminated, started>>

\* the text of all pages is extracted and is long enough
PdfTextExtracted(c) ==
    /\ calls[c].pc = "pdf"
    /\ \E pages \in PdfDocuments :
          LET text == pdfText(pages)
          IN  /\ sufficientText(text)
              /\ Step(c, Finish([calls[c] EXCEPT !.libs = {"pdfjs"}, !.pageCount = Len(pages),
                                                  !.pdf = pages],
                                Returned(OCRResult(trim(text), 95, S_standard_extraction,
                                                   Len(pages), calls[c].file))))
    /\ UNCHANGED <<tesseractWorker, workersCreated, terminated, started>>

\* the extracted text is too short: page 1 is rendered and handed to OCR
PdfScanned(c) ==
    /\ calls[c].pc = "pdf"
    /\ \E pages \in PdfDocuments :
          LET text == pdfText(pages)
          IN  /\ ~sufficientText(text)
              /\ Step(c, BeginOCR([calls[c] EXCEPT !.libs = {"pdfjs"}, !.pdf = pages,
                                                   !.pageCount = Len(pages),
                                                   !.rendered = 1], "pdf"))
    /\ UNCHANGED <<tesseractWorker, workersCreated, terminated, started>>

\* the extracted text is too short and rendering page 1 is rejected
PdfRenderFailed(c) ==
    /\ calls[c].pc = "pdf"
    /\ \E pages \in PdfDocuments, error \in LibraryFailures :
          LET text == pdfText(pages)
          IN  /\ ~sufficientText(text)
              /\ Step(c, Finish([calls[c] EXCEPT !.libs = {"pdfjs"}, !.pageCount = Len(pages),
                                                  !.pdf = pages],
                                Thrown(processDocumentError(processPDFError(error)))))
    /\ UNCHANGED <<tesseractWorker, workersCreated, terminated, started>>

(***************************************************************************)
(* processDocument: DOCX                                                   *)
(***************************************************************************)
\* file.arrayBuffer() or mammoth.extractRawText is rejected
DocxFailed(c) ==
    /\ calls[c].pc = "docx"
    /\ \E error \in LibraryFailures, invoked \in BOOLEAN :
          Step(c, Finish([calls[c] EXCEPT !.libs = IF invoked THEN {"mammoth"} ELSE {}],
                         Thrown(processDocumentError(processDOCXError(error)))))
    /\ UNCHANGED <<tesseractWorker, workersCreated, terminated, started>>

\* mammoth returns the raw text; a text that is empty after trim is an error
DocxExtracted(c) ==
    /\ calls[c].pc = "docx"
    /\ \E value \in DocxValues :
          LET call == [calls[c] EXCEPT !.libs = {"mammoth"}]
          IN  IF trim(value) = <<>>
              THEN Step(c, Finish(call, Thrown(processDocumentError(
                                            processDOCXError(Error(E_No_text_DOCX))))))
              ELSE Step(c, Finish(call, Returned(OCRResult(value, 95, S_docx_extraction, 1,
                                                           call.file))))
    /\ UNCHANGED <<tesseractWorker, workersCreated, terminated, started>>

(***************************************************************************)
(* initializeTesseract, processImageBlob, cleanup                          *)
(***************************************************************************)
\* createWorker('eng') resolves: this.tesseractWorker = the new worker
CreateWorkerResolved(c) ==
    /\ calls[c].pc = "createWorker"
    /\ workersCreated' = workersCreated + 1
    /\ tesseractWorker' = workersCreated + 1
    /\ IF calls[c].op = "processDocument"
       THEN Step(c, [calls[c] EXCEPT !.pc = "initialized"])
       ELSE Step(c, Finish(calls[c], Returned(Null)))
    /\ UNCHANGED <<terminated, started>>

\* createWorker('eng') is rejected
CreateWorkerRejected(c) ==
    /\ calls[c].pc = "createWorker"
    /\ \E error \in LibraryFailures :
          IF calls[c].op = "processDocument"
          THEN Step(c, Finish(calls[c], Thrown(OcrFailure(calls[c], error))))
          ELSE Step(c, Finish(calls[c], Thrown(error)))
    /\ UNCHANGED <<tesseractWorker, workersCreated, terminated, started>>

\* after await this.initializeTesseract(): this.tesseractWorker.recognize(blob)
Recognize(c) ==
    /\ calls[c].pc = "initialized"
    /\ IF tesseractWorker = NoWorker
       THEN Step(c, Finish(calls[c], Thrown(OcrFailure(calls[c], Error(E_null_recognize)))))
       ELSE Step(c, [calls[c] EXCEPT !.pc = "recognize", !.worker = tesseractWorker,
                                     !.libs = @ \cup {"tesseract"}])
    /\ UNCHANGED <<tesseractWorker, workersCreated, terminated, started>>

\* recognize resolves with a text and a confidence
RecognizeResolved(c) ==
    /\ calls[c].pc = "recognize"
    /\ calls[c].worker \notin terminated
    /\ \E text \in OcrTexts, confidence \in OcrConfidences :
          Step(c, Finish([calls[c] EXCEPT !.data = [text |-> text, confidence |-> confidence]],
                         Returned(OCRResult(trim(text), confidence \div 100,
                                            IF calls[c].path = "pdf" THEN S_pdf_ocr
                                                                     ELSE S_tesseract_ocr,
                                            calls[c].pageCount, calls[c].file))))
    /\ UNCHANGED <<tesseractWorker, workersCreated, terminated, started>>

\* recognize is rejected
RecognizeRejected(c) ==
    /\ calls[c].pc = "recognize"
    /\ \E error \in LibraryFailures :
          Step(c, Finish(calls[c], Thrown(OcrFailure(calls[c], error))))
    /\ UNCHANGED <<tesseractWorker, workersCreated, terminated, started>>

\* worker.terminate() resolves: this.tesseractWorker = null
TerminateResolved(c) ==
    /\ calls[c].pc = "terminate"
    /\ terminated' = terminated \cup {calls[c].worker}
    /\ tesseractWorker' = NoWorker
    /\ Step(c, Finish(calls[c], Returned(Null)))
    /\ UNCHANGED <<workersCreated, started>>

\* worker.terminate() is rejected
TerminateRejected(c) ==
    /\ calls[c].pc = "terminate"
    /\ \E error \in LibraryFailures :
          Step(c, Finish(calls[c], Thrown(error)))
    /\ UNCHANGED <<tesseractWorker, workersCreated, terminated, started>>

(***************************************************************************)
(* The methods of a DocumentProcessor called by a client                   *)
(***************************************************************************)
FileInputs ==
    {[name |-> "report.pdf",  type |-> S_application_pdf, size |-> 3],
     [name |-> "report.docx", type |-> S_docx_mime, size |-> 2],
     [name |-> "scan.png",    type |-> S_image_slash \o <<"p", "n", "g">>, size |-> 4],
     [name |-> "scan.PNG",    type |-> toUpperCase(S_image_slash \o <<"p", "n", "g">>), size |-> 4],
     [name |-> "scan.bmp",    type |-> <<>>, size |-> 1]}

CallProcessDocument(c) ==
    /\ Free(c)
    /\ started < MaxStarts
    /\ started' = started + 1
    /\ \E file \in FileInputs : Step(c, processDocument_Begin(file))
    /\ UNCHANGED <<tesseractWorker, workersCreated, terminated, stagingVars, answerVars, appVars, extractVars>>

CallInitializeTesseract(c) ==
    /\ Free(c)
    /\ started < MaxStarts
    /\ started' = started + 1
    /\ IF tesseractWorker = NoWorker
       THEN Step(c, [IdleCall EXCEPT !.op = "initializeTesseract", !.pc = "createWorker",
                                     !.libs = {"tesseract"}])
       ELSE Step(c, Finish([IdleCall EXCEPT !.op = "initializeTesseract"], Returned(Null)))
    /\ UNCHANGED <<tesseractWorker, workersCreated, terminated, stagingVars, answerVars, appVars, extractVars>>

CallCleanup(c) ==
    /\ Free(c)
    /\ started < MaxStarts
    /\ started' = started + 1
    /\ IF tesseractWorker # NoWorker
       THEN Step(c, [IdleCall EXCEPT !.op = "cleanup", !.pc = "terminate",
                                     !.worker = tesseractWorker, !.libs = {"tesseract"}])
       ELSE Step(c, Finish([IdleCall EXCEPT !.op = "cleanup"], Returned(Null)))
    /\ UNCHANGED <<tesseractWorker, workersCreated, terminated, stagingVars, answerVars, appVars, extractVars>>

\* a step of a method call in progress
ProcessorStep(c) ==
    \/ PdfFailed(c)
    \/ PdfTextExtracted(c)
    \/ PdfScanned(c)
    \/ PdfRenderFailed(c)
    \/ DocxFailed(c)
    \/ DocxExtracted(c)
    \/ CreateWorkerResolved(c)
    \/ CreateWorkerRejected(c)
    \/ Recognize(c)
    \/ RecognizeResolved(c)
    \/ RecognizeRejected(c)

(***************************************************************************)
(* lib/utils.ts: the extraction of features from a report text.  A regular *)
(* expression is modelled by the matches it has in each line of the sample *)
(* reports; no match in a text of the model spans a line break, so the     *)
(* matches in a text are those of its lines.  A length is in units of      *)
(* 0.01 cm and a confidence in units of 0.01.                              *)
(***************************************************************************)
\* cancerKeywords (utils.ts:21-28), in the order of Object.entries
cancerKeywords ==
    <<[cancerType |-> <<"g", "a", "l", "l", "b", "l", "a", "d", "d", "e", "r">>,
       keywords |-> <<<<"g", "a", "l", "l", "b", "l", "a", "d", "d", "e", "r">>,
                      <<"g", "b", " ", "c", "a", "r", "c", "i", "n", "o", "m", "a">>,
                      <<"c", "h", "o", "l", "a", "n", "g", "i", "o", "c", "a", "r", "c", "i", "n", "o", "m", "a">>>>],
      [cancerType |-> <<"e", "s", "o", "p", "h", "a", "g", "e", "a", "l">>,
       keywords |-> <<<<"e", "s", "o", "p", "h", "a", "g", "u", "s">>,
                      <<"e", "s", "o", "p", "h", "a", "g", "e", "a", "l">>,
                      <<"o", "e", "s", "o", "p", "h", "a", "g", "e", "a", "l">>>>],
      [cancerType |-> <<"b", "r", "e", "a", "s", "t">>,
       keywords |-> <<<<"b", "r", "e", "a", "s", "t">>,
                      <<"m", "a", "m", "m", "a", "r", "y">>,
                      <<"d", "u", "c", "t", "a", "l", " ", "c", "a", "r", "c", "i", "n", "o", "m", "a">>,
                      <<"l", "o", "b", "u", "l", "a", "r", " ", "c", "a", "r", "c", "i", "n", "o", "m", "a">>>>],
      [cancerType |-> <<"l", "u", "n", "g">>,
       keywords |-> <<<<"l", "u", "n", "g">>,
                      <<"p", "u", "l", "m", "o", "n", "a", "r", "y">>,
                      <<"n", "s", "c", "l", "c">>,
                      <<"s", "c", "l", "c">>,
                      <<"b", "r", "o", "n", "c", "h", "o", "g", "e", "n", "i", "c">>>>],
      [cancerType |-> <<"c", "o", "l", "o", "r", "e", "c", "t", "a", "l">>,
       keywords |-> <<<<"c", "o", "l", "o", "n">>,
                      <<"r", "e", "c", "t", "u", "m">>,
                      <<"c", "o", "l", "o", "r", "e", "c", "t", "a", "l">>,
                      <<"r", "e", "c", "t", "a", "l">>,
                      <<"c", "o", "l", "o", "n", "i", "c">>>>],
      [cancerType |-> <<"h", "e", "a", "d", " ", "a", "n", "d", " ", "n", "e", "c", "k">>,
       keywords |-> <<<<"o", "r", "a", "l", " ", "c", "a", "v", "i", "t", "y">>,
                      <<"o", "r", "o", "p", "h", "a", "r", "y", "n", "x">>,
                      <<"l", "a", "r", "y", "n", "x">>,
                      <<"p", "h", "a", "r", "y", "n", "x">>,
                      <<"h", "e", "a", "d", " ", "a", "n", "d", " ", "n", "e", "c", "k">>>>]>>

\* the negations looked for before a match (utils.ts:117)
negations == <<<<"n", "o", " ">>, <<"w", "i", "t", "h", "o", "u", "t">>, <<"n", "e", "g", "a", "t", "i", "v", "e">>, <<"a", "b", "s", "e", "n", "t">>>>

\* utils.ts:88: 'multiple'
Q_multiple == <<"m", "u", "l", "t", "i", "p", "l", "e">>

\* utils.ts:88: 'numerous'
Q_numerous == <<"n", "u", "m", "e", "r", "o", "u", "s">>

\* utils.ts:90: 'several'
Q_several == <<"s", "e", "v", "e", "r", "a", "l">>

\* utils.ts:61: 'mm'
U_mm == <<"m", "m">>

\* the matches of sizePattern (utils.ts:52) in each line of the sample reports
sizePattern_matches ==
    (L_lung :>
        <<[index |-> 5, match |-> <<"m", "a", "s", "s", " ", "m", "e", "a", "s", "u", "r",
        "i", "n", "g", " ", "3", ".", "5", " ", "c", "m">>, g1 |-> <<"3", ".", "5">>,
        g2 |-> <<"c", "m">>]>>) @@
    (R_rectal :>
        <<[index |-> 7, match |-> <<"g", "r", "o", "w", "t", "h", " ", "m", "e", "a", "s",
        "u", "r", "i", "n", "g", " ", "4", "5", " ", "m", "m">>, g1 |-> <<"4", "5">>,
        g2 |-> <<"m", "m">>]>>) @@
    (R_breast :>
        <<[index |-> 7, match |-> <<"l", "e", "s", "i", "o", "n", " ", "s", "i", "z", "e",
        "d", " ", "2", ".", "4", " ", "c", "m">>, g1 |-> <<"2", ".", "4">>, g2 |-> <<"c",
        "m">>]>>) @@
    (R_gallbladder :>
        <<[index |-> 71, match |-> <<"m", "a", "s", "s", " ", "m", "e", "a", "s", "u", "r",
        "e", "s", " ", "4", ".", "2", " ", "x", " ", "3", ".", "1", " ", "c", "m">>,
        g1 |-> <<"4", ".", "2">>, g2 |-> <<"c", "m">>]>>) @@
    (<<>> :>
        <<>>) @@
    (<<" ">> :>
        <<>>) @@
    (M_mention :>
        <<>>) @@
    (M_negation :>
        <<>>) @@
    (M_filler28 :>
        <<>>) @@
    (M_filler29 :>
        <<>>) @@
    (M_without :>
        <<>>) @@
    (M_after :>
        <<>>) @@
    (D_muscularis :>
        <<>>) @@
    (D_subserosa :>
        <<>>) @@
    (D_Mucosa :>
        <<>>) @@
    (D_submucosa :>
        <<>>) @@
    (D_serosa :>
        <<>>) @@
    (D_adventitia :>
        <<>>) @@
    (D_adjacent :>
        <<>>) @@
    (D_peritoneum :>
        <<>>) @@
    (R_esophagus :>
        <<>>) @@
    (R_colon :>
        <<>>)

\* the matches of nodePattern (utils.ts:78) in each line of the sample reports
nodePattern_matches ==
    (L_lung :>
        <<[index |-> 32, match |-> <<"2", " ", "e", "n", "l", "a", "r", "g", "e", "d", " ",
        "l", "y", "m", "p", "h", " ", "n", "o", "d", "e", "s">>,
        num |-> [str |-> <<"2">>]]>>) @@
    (R_rectal :>
        <<>>) @@
    (R_breast :>
        <<[index |-> 50, match |-> <<"S", "e", "v", "e", "r", "a", "l", " ", "p", "o", "s",
        "i", "t", "i", "v", "e", " ", "l", "y", "m", "p", "h", " ", "n", "o", "d", "e",
        "s">>, num |-> Null]>>) @@
    (R_gallbladder :>
        <<[index |-> 99, match |-> <<"M", "u", "l", "t", "i", "p", "l", "e", " ", "e", "n",
        "l", "a", "r", "g", "e", "d", " ", "l", "y", "m", "p", "h", " ", "n", "o", "d", "e",
        "s">>, num |-> Null]>>) @@
    (<<>> :>
        <<>>) @@
    (<<" ">> :>
        <<>>) @@
    (M_mention :>
        <<>>) @@
    (M_negation :>
        <<>>) @@
    (M_filler28 :>
        <<>>) @@
    (M_filler29 :>
        <<>>) @@
    (M_without :>
        <<>>) @@
    (M_after :>
        <<>>) @@
    (D_muscularis :>
        <<>>) @@
    (D_subserosa :>
        <<>>) @@
    (D_Mucosa :>
        <<>>) @@
    (D_submucosa :>
        <<>>) @@
    (D_serosa :>
        <<>>) @@
    (D_adventitia :>
        <<>>) @@
    (D_adjacent :>
        <<>>) @@
    (D_peritoneum :>
        <<>>) @@
    (R_esophagus :>
        <<>>) @@
    (R_colon :>
        <<>>)

\* the matches of metastasisPattern (utils.ts:106) in each line of the sample reports
metastasisPattern_matches ==
    (L_lung :>
        <<[index |-> 59, match |-> <<"d", "i", "s", "t", "a", "n", "t", " ", "m", "e", "t",
        "a", "s", "t", "a", "s", "i", "s">>]>>) @@
    (R_rectal :>
        <<>>) @@
    (R_breast :>
        <<[index |-> 83, match |-> <<"m", "e", "t", "a", "s", "t", "a", "s", "i", "s">>]>>) @@
    (R_gallbladder :>
        <<[index |-> 130, match |-> <<"D", "i", "s", "t", "a", "n", "t", " ", "m", "e", "t",
        "a", "s", "t", "a", "s", "e", "s">>]>>) @@
    (<<>> :>
        <<>>) @@
    (<<" ">> :>
        <<>>) @@
    (M_mention :>
        <<[index |-> 6, match |-> <<"m", "e", "t", "a", "s", "t", "a", "s", "e", "s">>]>>) @@
    (M_negation :>
        <<>>) @@
    (M_filler28 :>
        <<>>) @@
    (M_filler29 :>
        <<>>) @@
    (M_without :>
        <<[index |-> 8, match |-> <<"d", "i", "s", "s", "e", "m", "i", "n", "a", "t", "e",
        "d">>]>>) @@
    (M_after :>
        <<[index |-> 0, match |-> <<"M", "e", "t", "a", "s", "t", "a", "t", "i", "c", " ",
        "d", "i", "s", "e", "a", "s", "e">>]>>) @@
    (D_muscularis :>
        <<>>) @@
    (D_subserosa :>
        <<>>) @@
    (D_Mucosa :>
        <<>>) @@
    (D_submucosa :>
        <<>>) @@
    (D_serosa :>
        <<>>) @@
    (D_adventitia :>
        <<>>) @@
    (D_adjacent :>
        <<>>) @@
    (D_peritoneum :>
        <<>>) @@
    (R_esophagus :>
        <<>>) @@
    (R_colon :>
        <<>>)

\* the matches of liverInvasionPattern (document-processor.ts:168) in each line of the sample reports
liverInvasionPattern_matches ==
    (L_lung :>
        <<>>) @@
    (R_rectal :>
        <<>>) @@
    (R_breast :>
        <<>>) @@
    (R_gallbladder :>
        <<[index |-> 49, match |-> <<"h", "e", "p", "a", "t", "i", "c", " ", "i", "n", "v",
        "a", "s", "i", "o", "n">>]>>) @@
    (<<>> :>
        <<>>) @@
    (<<" ">> :>
        <<>>) @@
    (M_mention :>
        <<>>) @@
    (M_negation :>
        <<>>) @@
    (M_filler28 :>
        <<>>) @@
    (M_filler29 :>
        <<>>) @@
    (M_without :>
        <<>>) @@
    (M_after :>
        <<>>) @@
    (D_muscularis :>
        <<>>) @@
    (D_subserosa :>
        <<>>) @@
    (D_Mucosa :>
        <<>>) @@
    (D_submucosa :>
        <<>>) @@
    (D_serosa :>
        <<>>) @@
    (D_adventitia :>
        <<>>) @@
    (D_adjacent :>
        <<>>) @@
    (D_peritoneum :>
        <<>>) @@
    (R_esophagus :>
        <<>>) @@
    (R_colon :>
        <<>>)

Min(S) == CHOOSE x \in S : \A y \in S : x <= y

Max(S) == CHOOSE x \in S : \A y \in S : x >= y

DigitValue ==
    ("0" :> 0) @@ ("1" :> 1) @@ ("2" :> 2) @@ ("3" :> 3) @@ ("4" :> 4) @@
    ("5" :> 5) @@ ("6" :> 6) @@ ("7" :> 7) @@ ("8" :> 8) @@ ("9" :> 9)

\* parseInt of a string of digits
RECURSIVE parseInt(_)
parseInt(str) ==
    IF str = <<>> THEN 0
    ELSE parseInt(SubSeq(str, 1, Len(str) - 1)) * 10 + DigitValue[str[Len(str)]]

\* parseFloat of digits with an optional fraction, in units of 0.01; the
\* third and later decimals are dropped
parseFloat(str) ==
    LET dots == {i \in 1..Len(str) : str[i] = "."}
        dot  == IF dots = {} THEN Len(str) + 1 ELSE Min(dots)
        frac == SubSeq(SubSeq(str, dot + 1, Len(str)) \o <<"0", "0">>, 1, 2)
    IN  parseInt(SubSeq(str, 1, dot - 1)) * 100 + parseInt(frac)

\* Array.from(text.matchAll(pattern)): the matches of the lines of text, in
\* order, match.index counted from the start of text
matchAll(pattern_matches, text) ==
    LET breaks == {i \in 1..Len(text) : text[i] = "\n"}
        RECURSIVE from(_)
        from(start) ==
            LET ends == {b \in breaks : b >= start}
                end  == IF ends = {} THEN Len(text) + 1 ELSE Min(ends)
                line == pattern_matches[SubSeq(text, start, end - 1)]
                here == [i \in 1..Len(line) |-> [line[i] EXCEPT !.index = @ + start - 1]]
            IN  IF ends = {} THEN here ELSE here \o from(end + 1)
    IN  from(1)

\* keyword.split(' ').length
wordCount(keyword) == 1 + Cardinality({i \in 1..Len(keyword) : keyword[i] = " "})

\* the score of one cancer type, in units of 0.3: the words of its keywords
\* that occur in the text.  Sums of multiples of 0.3 up to 2.4 compare as
\* their integer multiples do.
RECURSIVE keywordScore(_, _)
keywordScore(textLower, keywords) ==
    IF keywords = <<>> THEN 0
    ELSE (IF includes(textLower, toLowerCase(Head(keywords)))
          THEN wordCount(Head(keywords)) ELSE 0)
         + keywordScore(textLower, Tail(keywords))

\* variant: a type whose score equals the best so far replaces it
extractCancerType_LastOfTies(text) ==
    LET textLower == toLowerCase(text)
        RECURSIVE loop(_, _, _)
        loop(i, bestMatch, bestScore) ==
            IF i > Len(cancerKeywords)
            THEN [type |-> bestMatch, confidence |-> Min({bestScore * 10, 100})]
            ELSE LET score == keywordScore(textLower, cancerKeywords[i].keywords)
                 IN  IF score >= bestScore /\ score > 0
                     THEN loop(i + 1, cancerKeywords[i].cancerType, score)
                     ELSE loop(i + 1, bestMatch, bestScore)
    IN  loop(1, <<>>, 0)

\* confidence = Math.min(bestScore / 3.0, 1.0)
extractCancerType(text) ==
    LET textLower == toLowerCase(text)
        RECURSIVE loop(_, _, _)
        loop(i, bestMatch, bestScore) ==
            IF i > Len(cancerKeywords)
            THEN [type |-> bestMatch, confidence |-> Min({bestScore * 10, 100})]
            ELSE LET score == keywordScore(textLower, cancerKeywords[i].keywords)
                 IN  IF score > bestScore
                     THEN loop(i + 1, cancerKeywords[i].cancerType, score)
                     ELSE loop(i + 1, bestMatch, bestScore)
    IN  loop(1, <<>>, 0)

\* variant: the unit is compared as it is written
sizeOfMatch_UnitAsWritten(match) ==
    IF match.g2 = U_mm THEN parseFloat(match.g1) \div 10
    ELSE parseFloat(match.g1)

\* the size of one match in cm: mm is divided by 10 (exact for the sample
\* reports, whose sizes in mm have no decimals)
sizeOfMatch(match) ==
    IF toLowerCase(match.g2) = U_mm THEN parseFloat(match.g1) \div 10
    ELSE parseFloat(match.g1)

\* extractTumorSize, given the list of matches of sizePattern
tumorSizeOfMatches(matches) ==
    LET sizes == [i \in 1..Len(matches) |-> sizeOfMatch(matches[i])]
    IN  IF Len(sizes) > 0
        THEN [size |-> Max({sizes[i] : i \in 1..Len(sizes)}),
              confidence |-> IF Len(sizes) = 1 THEN 90 ELSE 70]
        ELSE [size |-> 0, confidence |-> 0]

extractTumorSize(text) == tumorSizeOfMatches(matchAll(sizePattern_matches, text))

\* variant: the qualifier is looked for in the match as it is written
countsOfMatch_QualifierAsWritten(match) ==
    IF match.num # Null /\ match.num.str # <<>>
    THEN <<parseInt(match.num.str)>>
    ELSE LET qualifier == match.match
         IN  IF includes(qualifier, Q_multiple) \/ includes(qualifier, Q_numerous)
             THEN <<5>>
             ELSE IF includes(qualifier, Q_several) THEN <<3>>
             ELSE <<>>

\* the counts pushed for one match: the number, 5, 3 or nothing
countsOfMatch(match) ==
    IF match.num # Null /\ match.num.str # <<>>
    THEN <<parseInt(match.num.str)>>
    ELSE LET qualifier == toLowerCase(match.match)
         IN  IF includes(qualifier, Q_multiple) \/ includes(qualifier, Q_numerous)
             THEN <<5>>
             ELSE IF includes(qualifier, Q_several) THEN <<3>>
             ELSE <<>>

\* extractLymphNodes, given the list of matches of nodePattern
RECURSIVE countsOfMatches(_)
countsOfMatches(matches) ==
    IF matches = <<>> THEN <<>>
    ELSE countsOfMatch(Head(matches)) \o countsOfMatches(Tail(matches))

lymphNodesOfMatches(matches) ==
    LET counts == countsOfMatches(matches)
    IN  IF Len(counts) > 0
        THEN [count |-> Max({counts[i] : i \in 1..Len(counts)}), confidence |-> 80]
        ELSE [count |-> 0, confidence |-> 50]

extractLymphNodes(text) == lymphNodesOfMatches(matchAll(nodePattern_matches, text))

\* variant: the context is the 49 characters before the match
negated_Within49(text, match) ==
    LET start   == Max({0, match.index - 49})
        context == toLowerCase(SubSeq(text, start + 1, match.index))
    IN  \E n \in 1..Len(negations) : includes(context, negations[n])

\* text.slice(start, match.index).toLowerCase() holds a negation
negated(text, match) ==
    LET start   == Max({0, match.index - 50})
        context == toLowerCase(SubSeq(text, start + 1, match.index))
    IN  \E n \in 1..Len(negations) : includes(context, negations[n])

\* extractMetastasis, given the text and the list of matches of metastasisPattern
metastasisOfMatches(text, matches) ==
    IF Len(matches) > 0
    THEN LET hasMetastasis == \A i \in 1..Len(matches) : ~negated(text, matches[i])
         IN  [hasMetastasis |-> hasMetastasis,
              confidence |-> IF hasMetastasis THEN 90 ELSE 80]
    ELSE [hasMetastasis |-> FALSE, confidence |-> 60]

extractMetastasis(text) ==
    metastasisOfMatches(text, matchAll(metastasisPattern_matches, text))

(***************************************************************************)
(* lib/document-processor.ts: extractFeatures.  extracted_values, always   *)
(* empty, is left out of MedicalFeatures.                                  *)
(***************************************************************************)
depthKeywords == <<S_mucosa, S_submucosa, S_muscularis, S_subserosa, S_serosa, S_adventitia>>

\* the first of depthKeywords that the lower-cased text includes, or ''
tumorDepthOf(text) ==
    LET found == {i \in 1..Len(depthKeywords) : includes(toLowerCase(text), depthKeywords[i])}
    IN  IF found = {} THEN <<>> ELSE depthKeywords[Min(found)]

extractFeatures(text) ==
    LET cancerResult     == extractCancerType(text)
        sizeResult       == extractTumorSize(text)
        nodesResult      == extractLymphNodes(text)
        metastasisResult == extractMetastasis(text)
        liverInvasion    == matchAll(liverInvasionPattern_matches, text) # <<>>
        tumorDepth       == tumorDepthOf(text)
    IN  [cancer_type          |-> cancerResult.type,
         tumor_size_cm        |-> sizeResult.size,
         lymph_nodes_involved |-> nodesResult.count,
         distant_metastasis   |-> metastasisResult.hasMetastasis,
         liver_invasion       |-> liverInvasion,
         tumor_depth          |-> tumorDepth,
         confidence_scores    |->
             [cancer_type    |-> cancerResult.confidence,
              tumor_size     |-> sizeResult.confidence,
              lymph_nodes    |-> nodesResult.confidence,
              metastasis     |-> metastasisResult.confidence,
              liver_invasion |-> IF liverInvasion THEN 80 ELSE 70,
              tumor_depth    |-> IF tumorDepth # <<>> THEN 80 ELSE 0]]

\* the catch clause of extractFeatures
extractFeaturesError(error) ==
    Error(E_Feature_extraction_failed \o messageOf(error, E_Unknown_error))

(***************************************************************************)
(* app/page.tsx: OncoStagingApp.  handleFileSelect advances at its two     *)
(* awaits; the statements between two awaits run without interruption, and *)
(* the state updates they queue are applied in order.  The processor call  *)
(* of a run is call 1 of the DocumentProcessor.                            *)
(***************************************************************************)
\* page.tsx:88: 'Processing failed'
E_Processing_failed ==
    <<"P", "r", "o", "c", "e", "s", "s", "i", "n", "g", " ", "f", "a", "i", "l", "e", "d">>

\* page.tsx:74: 'Based on the analysis, this appears to be '
AI_analysis_1 ==
    <<"B", "a", "s", "e", "d", " ", "o", "n", " ", "t", "h", "e", " ", "a", "n", "a", "l", "y",
      "s", "i", "s", ",", " ", "t", "h", "i", "s", " ", "a", "p", "p", "e", "a", "r", "s", " ",
      "t", "o", " ", "b", "e", " ">>

\* page.tsx:74: ' '
AI_analysis_2 ==
    <<" ">>

\* page.tsx:74: ' cancer. '
AI_analysis_3 ==
    <<" ", "c", "a", "n", "c", "e", "r", ".", " ">>

\* page.tsx:110: 'Not identified'
D_Not_identified ==
    <<"N", "o", "t", " ", "i", "d", "e", "n", "t", "i", "f", "i", "e", "d">>

\* page.tsx:116: 'Unknown'
D_Unknown ==
    <<"U", "n", "k", "n", "o", "w", "n">>

\* page.tsx:121: 'Not available'
D_Not_available ==
    <<"N", "o", "t", " ", "a", "v", "a", "i", "l", "a", "b", "l", "e">>

MaxRuns == 2

MaxDownloads == 1

\* useState<AppState>({...})
InitialAppState ==
    [current_step |-> 1, ocr_result |-> Null, extraction_result |-> Null,
     clinical_recommendations |-> Null, processing_results |-> Null]

\* no run of handleFileSelect has been started
IdleRun ==
    [pc |-> "idle", id |-> 0, file |-> Null, ocrResult |-> Null, featuresResult |-> Null,
     features |-> Null, staging |-> Null, error |-> Null, steps |-> <<>>, progress |-> <<>>]

AppInit ==
    /\ appState = InitialAppState
    /\ isProcessing = FALSE
    /\ processingProgress = 0
    /\ run = IdleRun
    /\ timers = 0
    /\ downloads = 0

\* the files the dropzone hands over: of an accepted type, or of an accepted
\* extension and no type
SelectableFiles ==
    {file \in FileInputs : file.name \in {"report.pdf", "report.docx", "scan.png", "scan.bmp"}}

\* an exception raised by the runtime inside a synchronous call
RuntimeErrors ==
    {Error(<<"o", "u", "t", " ", "o", "f", " ", "m", "e", "m", "o", "r", "y">>)}

\* the texts processDocument returns in the model
ReportTexts ==
    {trim(pdfText(pages)) : pages \in PdfDocuments}
        \cup DocxValues \cup {trim(text) : text \in OcrTexts}

\* extractFeatures of each of these texts, computed once
extractedFeatures == [text \in ReportTexts |-> extractFeatures(text)]

\* the promise documentProcessor.extractFeatures(text) returns
extractFeaturesOutcomes(text) ==
    {Returned(extractedFeatures[text])}
        \cup {Thrown(extractFeaturesError(error)) : error \in RuntimeErrors}

\* what determineTNMStage(features.cancer_type, features) returns or throws
determineTNMStageOutcomes(feats) ==
    {Returned(determineTNMStage(feats.cancer_type, feats))}
        \cup {Thrown(error) : error \in RuntimeErrors}

\* ai_analysis: the sentence when a cancer type was identified, else undefined
aiAnalysis(feats, staging) ==
    IF feats.cancer_type # <<>>
    THEN [text |-> AI_analysis_1 \o staging.stage \o AI_analysis_2 \o feats.cancer_type
                    \o AI_analysis_3 \o staging.description]
    ELSE Null

\* processingResult of a run that succeeded; processing_time is left out
successResult(file, ocrResult, feats, staging) ==
    ProcessingResult(TRUE,
                     [text |-> ocrResult.text, file_name |-> file.name,
                      file_type |-> file.type, file_size |-> file.size,
                      text_length |-> Len(ocrResult.text)],
                     feats, staging, aiAnalysis(feats, staging), Null)

\* variant: the failure result keeps the features of the run
errorResult_WithFeatures(error, r) ==
    ProcessingResult(FALSE, Null, r.features, Null, Null,
                     [text |-> messageOf(error, E_Processing_failed)])

\* errorResult of the catch clause; r is the run
errorResult(error, r) ==
    ProcessingResult(FALSE, Null, Null, Null, Null,
                     [text |-> messageOf(error, E_Processing_failed)])

\* variant: the failure path leaves isProcessing as it is
CatchFinally_StillProcessing(error, state, r) ==
    /\ appState' = [state EXCEPT !.processing_results = errorResult(error, r)]
    /\ UNCHANGED isProcessing
    /\ timers' = timers + 1
    /\ run' = [r EXCEPT !.pc = "ended", !.error = error]

\* the catch and finally clauses, entered with the error thrown, the appState
\* and the run as the statements of the try block have left them
CatchFinally(error, state, r) ==
    /\ appState' = [state EXCEPT !.processing_results = errorResult(error, r)]
    /\ isProcessing' = FALSE
    /\ timers' = timers + 1
    /\ run' = [r EXCEPT !.pc = "ended", !.error = error]

\* variant: the button is rendered while a document is processed too
FileSelected_WhileProcessing ==
    /\ started < MaxRuns
    /\ \E file \in SelectableFiles :
          /\ isProcessing' = TRUE
          /\ processingProgress' = 20
          /\ appState' = [appState EXCEPT !.current_step = 2]
          /\ run' = [IdleRun EXCEPT !.pc = "processDocument", !.id = started + 1,
                                    !.file = file, !.steps = <<2>>, !.progress = <<0, 20>>]
          /\ Step(1, processDocument_Begin(file))
    /\ started' = started + 1
    /\ UNCHANGED <<tesseractWorker, workersCreated, terminated, timers, downloads,
                   stagingVars, answerVars, extractVars>>

\* the Process Document button is clicked: handleFileSelect(file) up to the
\* await of processDocument.  The button is rendered while isProcessing is
\* false.
FileSelected ==
    /\ ~isProcessing
    /\ started < MaxRuns
    /\ \E file \in SelectableFiles :
          /\ isProcessing' = TRUE
          /\ processingProgress' = 20
          /\ appState' = [appState EXCEPT !.current_step = 2]
          /\ run' = [IdleRun EXCEPT !.pc = "processDocument", !.id = started + 1,
                                    !.file = file, !.steps = <<2>>, !.progress = <<0, 20>>]
          /\ Step(1, processDocument_Begin(file))
    /\ started' = started + 1
    /\ UNCHANGED <<tesseractWorker, workersCreated, terminated, timers, downloads,
                   stagingVars, answerVars, extractVars>>

\* variant: the features are extracted from the text in appState as the
\* handler saw it when the await returned
featuresText_FromState(ocrResult) ==
    IF appState.ocr_result = Null THEN <<>> ELSE appState.ocr_result.text

\* the text handed to extractFeatures: that of the OCRResult just returned
featuresText(ocrResult) == ocrResult.text

\* processDocument has settled: the handler goes on to the await of
\* extractFeatures, or to catch and finally
ProcessDocumentSettled ==
    /\ run.pc = "processDocument"
    /\ calls[1].pc = "idle"
    /\ IF returned.result.status = "thrown"
       THEN /\ CatchFinally(returned.result.value, appState, run)
            /\ UNCHANGED processingProgress
       ELSE LET ocrResult == returned.result.value
            IN  \E featuresResult \in extractFeaturesOutcomes(featuresText(ocrResult)) :
                   /\ appState' = [appState EXCEPT !.ocr_result = ocrResult,
                                                   !.current_step = 3]
                   /\ processingProgress' = 50
                   /\ run' = [run EXCEPT !.pc = "extractFeatures",
                                         !.ocrResult = ocrResult,
                                         !.featuresResult = featuresResult,
                                         !.steps = Append(@, 3),
                                         !.progress = Append(@, 50)]
                   /\ UNCHANGED <<isProcessing, timers>>
    /\ UNCHANGED <<processorVars, downloads, stagingVars, answerVars, extractVars>>

\* extractFeatures has settled: the rest of the try block, then finally
ExtractFeaturesSettled ==
    /\ run.pc = "extractFeatures"
    /\ IF run.featuresResult.status = "thrown"
       THEN /\ CatchFinally(run.featuresResult.value, appState, run)
            /\ UNCHANGED processingProgress
       ELSE LET feats  == run.featuresResult.value
                state4 == [appState EXCEPT !.current_step = 4]
                r4     == [run EXCEPT !.features = feats, !.steps = Append(@, 4),
                                      !.progress = Append(@, 70)]
            IN  \E stagingResult \in determineTNMStageOutcomes(feats) :
                   IF stagingResult.status = "thrown"
                   THEN /\ processingProgress' = 70
                        /\ CatchFinally(stagingResult.value, state4, r4)
                   ELSE LET staging == stagingResult.value
                        IN  /\ processingProgress' = 100
                            /\ appState' =
                                 [state4 EXCEPT
                                    !.current_step = 5,
                                    !.processing_results =
                                        successResult(run.file, run.ocrResult, feats, staging)]
                            /\ run' = [r4 EXCEPT !.pc = "ended", !.staging = staging,
                                                 !.steps = @ \o <<5, 5>>,
                                                 !.progress = @ \o <<90, 100>>]
                            /\ isProcessing' = FALSE
                            /\ timers' = timers + 1
    /\ UNCHANGED <<processorVars, downloads, stagingVars, answerVars, extractVars>>

\* a timer set in finally fires: setProcessingProgress(0)
ProgressReset ==
    /\ timers > 0
    /\ timers' = timers - 1
    /\ processingProgress' = 0
    /\ UNCHANGED <<appState, isProcessing, run, downloads, processorVars, stagingVars,
                   answerVars, extractVars>>

\* the values handleDownload writes into the summary
downloadSummary(results) ==
    [cancer_type |-> cancerTypeOr(results, D_Not_identified),
     tumor_size  |-> IF results.features = Null THEN 0 ELSE results.features.tumor_size_cm,
     lymph_nodes |-> IF results.features = Null THEN 0
                     ELSE results.features.lymph_nodes_involved,
     metastasis  |-> results.features # Null /\ results.features.distant_metastasis,
     stage       |-> stageOr(results, D_Unknown),
     description |-> descriptionOr(results, D_Not_available)]

\* handleDownload is called: it returns at once unless the results are a success
handleDownload ==
    /\ IF appState.processing_results = Null \/ ~appState.processing_results.success
       THEN UNCHANGED downloads
       ELSE /\ downloads < MaxDownloads
            /\ downloads' = downloads + 1
    /\ UNCHANGED <<appState, isProcessing, processingProgress, run, timers, processorVars,
                   stagingVars, answerVars, extractVars>>

\* the Q&A section and the feedback section are rendered
QASectionShown ==
    appState.processing_results # Null /\ appState.processing_results.success

\* variant: the steps of the OCR result are not listed
completedSteps_WithoutOcr(state) ==
    LET results == state.processing_results
    IN  (IF results # Null /\ results.features # Null THEN <<3>> ELSE <<>>)
        \o (IF results # Null /\ results.staging # Null THEN <<4>> ELSE <<>>)
        \o (IF results # Null /\ results.success THEN <<5>> ELSE <<>>)

\* const completedSteps = [...]
completedSteps(state) ==
    LET results == state.processing_results
    IN  (IF state.ocr_result # Null THEN <<1, 2>> ELSE <<>>)
        \o (IF results # Null /\ results.features # Null THEN <<3>> ELSE <<>>)
        \o (IF results # Null /\ results.staging # Null THEN <<4>> ELSE <<>>)
        \o (IF results # Null /\ results.success THEN <<5>> ELSE <<>>)

\* ProcessingSteps: getStepStatus, with the props currentStep and completedSteps
getStepStatus(stepId, currentStep, completed) ==
    IF \E i \in 1..Len(completed) : completed[i] = stepId THEN "completed"
    ELSE IF stepId = currentStep THEN "current"
    ELSE "pending"

\* the status ProcessingSteps shows for a step
shownStatus(stepId) ==
    getStepStatus(stepId, appState.current_step, completedSteps(appState))

(***************************************************************************)
(* Initial conditions of the parts                                         *)
(***************************************************************************)
\* the staging engine is not in use
StagingIdle == inCancerType = <<>> /\ inFeatures = Null /\ outStaging = Null

\* generateAnswer is not in use
AnswerIdle == inQuestion = <<>> /\ inResults = Null /\ outAnswer = Null /\ QASectionIdle

\* the extraction functions are not in use
ExtractIdle == inExtract = Null /\ outExtract = Null

\* a DocumentProcessor after construction
ProcessorInit ==
    /\ tesseractWorker = NoWorker
    /\ workersCreated = 0
    /\ terminated = {}
    /\ calls = [c \in CallIds |-> IdleCall]
    /\ returned = Null
    /\ started = 0

(***************************************************************************)
(* The staging engine called on every input                                *)
(***************************************************************************)
InitStaging ==
    /\ inCancerType \in CancerTypeInputs
    /\ inFeatures = Null
    /\ outStaging = Null
    /\ AnswerIdle
    /\ ProcessorInit
    /\ AppInit
    /\ ExtractIdle

CallDetermineTNMStage ==
    /\ outStaging = Null
    /\ \E f \in FeatureInputs :
          /\ inFeatures' = f
          /\ outStaging' = determineTNMStage(inCancerType, f)
    /\ UNCHANGED <<inCancerType, answerVars, processorVars, appVars, extractVars>>

NextStaging == CallDetermineTNMStage

SpecStaging == InitStaging /\ [][NextStaging]_vars

(***************************************************************************)
(* generateAnswer called on every input                                    *)
(***************************************************************************)
InitAnswer ==
    /\ inQuestion \in QuestionInputs
    /\ inResults \in ResultsInputs
    /\ outAnswer = Null
    /\ QASectionIdle
    /\ StagingIdle
    /\ ProcessorInit
    /\ AppInit
    /\ ExtractIdle

CallGenerateAnswer ==
    /\ outAnswer = Null
    /\ outAnswer' = [text |-> generateAnswer(inQuestion, inResults)]
    /\ UNCHANGED <<inQuestion, inResults, qaVars, stagingVars, processorVars, appVars, extractVars>>

NextAnswer == CallGenerateAnswer

SpecAnswer == InitAnswer /\ [][NextAnswer]_vars

(***************************************************************************)
(* A DocumentProcessor whose methods are called in any order, a call being *)
(* made while others are in progress                                       *)
(***************************************************************************)
InitProcessor ==
    /\ ProcessorInit
    /\ StagingIdle
    /\ AnswerIdle
    /\ AppInit
    /\ ExtractIdle

NextProcessor ==
    \E c \in CallIds :
        \/ CallProcessDocument(c)
        \/ CallInitializeTesseract(c)
        \/ CallCleanup(c)
        \/ (ProcessorStep(c) /\ UNCHANGED <<stagingVars, answerVars, appVars, extractVars>>)
        \/ (TerminateResolved(c) /\ UNCHANGED <<stagingVars, answerVars, appVars, extractVars>>)
        \/ (TerminateRejected(c) /\ UNCHANGED <<stagingVars, answerVars, appVars, extractVars>>)

SpecProcessor == InitProcessor /\ [][NextProcessor]_vars


(***************************************************************************)
(* The application: documents are selected and processed one after the     *)
(* other, timers fire and the report is downloaded at any moment           *)
(***************************************************************************)
Init ==
    /\ AppInit
    /\ ExtractIdle
    /\ ProcessorInit
    /\ StagingIdle
    /\ AnswerIdle

\* a step of processDocument in the call of the run
ProcessDocumentStep ==
    /\ ProcessorStep(1)
    /\ UNCHANGED <<stagingVars, answerVars, appVars, extractVars>>

Next ==
    \/ FileSelected
    \/ ProcessDocumentStep
    \/ ProcessDocumentSettled
    \/ ExtractFeaturesSettled
    \/ ProgressReset
    \/ handleDownload

Spec == Init /\ [][Next]_vars

\* every library promise settles and every continuation of the handler is run
Fairness ==
    /\ WF_vars(ProcessDocumentStep)
    /\ WF_vars(ProcessDocumentSettled)
    /\ WF_vars(ExtractFeaturesSettled)

FairSpec == Spec /\ Fairness


(***************************************************************************)
(* QASection: questions are picked, typed and submitted, answer timers     *)
(* fire and the results change at any moment                               *)
(***************************************************************************)
InitQA ==
    /\ QASectionInit
    /\ inQuestion = <<>>
    /\ inResults = Null
    /\ outAnswer = Null
    /\ StagingIdle
    /\ ProcessorInit
    /\ AppInit
    /\ ExtractIdle

qaOtherVars == <<inQuestion, inResults, outAnswer, stagingVars, processorVars, appVars, extractVars>>

NextQA ==
    \/ (handleQuestionSelect /\ UNCHANGED qaOtherVars)
    \/ (QuestionTyped /\ UNCHANGED qaOtherVars)
    \/ (ResultsReplaced /\ UNCHANGED qaOtherVars)
    \/ (handleSubmit /\ UNCHANGED qaOtherVars)
    \/ (AnswerTimerFired /\ UNCHANGED qaOtherVars)

SpecQA == InitQA /\ [][NextQA]_vars
(***************************************************************************)
(* The extraction functions called on every input.  extractTumorSize and   *)
(* extractLymphNodes are called on lists of matches: those of the sample   *)
(* reports and lists made of the matches below.                            *)
(***************************************************************************)
MaxPhrases == 2

MaxMatches == 2

MaxLines == 3

\* the sequences of at most n elements of S
SeqsUpTo(S, n) == UNION {[1..k -> S] : k \in 0..n}

\* the elements of a sequence of strings joined by sep
RECURSIVE join(_, _)
join(strings, sep) ==
    IF strings = <<>> THEN <<>>
    ELSE IF Len(strings) = 1 THEN strings[1]
    ELSE strings[1] \o sep \o join(Tail(strings), sep)

\* phrases of reports: names of the six cancer types, some inside others
\* ('esophageal' in 'oesophageal', 'sclc' in 'NSCLC', 'rectal' in
\* 'colorectal', 'pharynx' in 'oropharynx'), and two words that are no keyword
Phrases ==
    {Capitalize(S_gallbladder),
     <<"o", "e", "s", "o", "p", "h", "a", "g", "e", "a", "l">>,
     S_breast,
     <<"d", "u", "c", "t", "a", "l", " ", "c", "a", "r", "c", "i", "n", "o", "m", "a">>,
     S_lung,
     <<"N", "S", "C", "L", "C">>,
     S_colorectal,
     S_head_and_neck,
     S_oropharynx,
     <<"l", "e", "f", "t">>}

CancerTypeTexts == {join(phrases, <<" ">>) : phrases \in SeqsUpTo(Phrases, MaxPhrases)}

\* a match of sizePattern with first dimension g1 and unit g2
SizeMatch(g1, g2) ==
    [index |-> 0,
     match |-> <<"m", "a", "s", "s", " ", "s", "i", "z", "e", " ">> \o g1 \o <<" ">> \o g2,
     g1 |-> g1, g2 |-> g2]

SizeMatches ==
    {SizeMatch(g1, g2) : g1 \in {<<"4", "5">>, <<"3", ".", "2">>, <<"5">>, <<"3", "0">>},
                         g2 \in {<<"c", "m">>, <<"m", "m">>, <<"M", "M">>}}

SizeMatchLists ==
    SeqsUpTo(SizeMatches, MaxMatches)
        \cup {matchAll(sizePattern_matches, text) : text \in ReportTexts}

\* a match of nodePattern: a number or a qualifier, and the rest of the match
NodeMatch(num, qualifier, rest) ==
    [index |-> 0,
     match |-> (IF num = Null THEN qualifier ELSE num.str) \o rest,
     num |-> num]

NodeMatches ==
    LET nodes == <<" ", "n", "o", "d", "e", "s">>
        LN    == <<" ", "L", "N">>
    IN  {NodeMatch([str |-> <<"0">>], <<>>, nodes),
         NodeMatch([str |-> <<"2">>], <<>>, <<" ", "p", "o", "s", "i", "t", "i", "v", "e">> \o nodes),
         NodeMatch([str |-> <<"1", "2">>], <<>>, LN),
         NodeMatch([str |-> <<"4">>], <<>>, nodes),
         NodeMatch(Null, Capitalize(Q_multiple), nodes),
         NodeMatch(Null, toUpperCase(Q_numerous), LN),
         NodeMatch(Null, Q_several, nodes)}

NodeMatchLists ==
    SeqsUpTo(NodeMatches, MaxMatches)
        \cup {matchAll(nodePattern_matches, text) : text \in ReportTexts}

MetastasisLines == {M_mention, M_negation, M_filler28, M_filler29, M_without, M_after}

MetastasisTexts ==
    {join(lines, <<"\n">>) : lines \in SeqsUpTo(MetastasisLines, MaxLines)} \cup ReportTexts

FeaturesTexts == ReportTexts \cup {D_muscularis, D_subserosa, D_Mucosa}

\* handleFileSelect between its two awaits: the features extracted from the
\* text of the report and the staging of these features
stageReport(text) ==
    LET features == extractFeatures(text)
    IN  [features |-> features,
         staging  |-> determineTNMStage(features.cancer_type, features)]

\* a depth of invasion as a report words it: the keys of the depthToT tables
\* of stageEsophagealCancer and stageColorectalCancer and the depthKeywords
DepthLines ==
    {D_Mucosa, D_submucosa, D_muscularis, D_subserosa, D_serosa, D_adventitia,
     D_adjacent, D_peritoneum}

\* reports of an esophageal or a colorectal tumour, with and without a depth
StagedReportTexts ==
    {R_esophagus, R_colon}
        \cup {type \o <<"\n">> \o depth : type \in {R_esophagus, R_colon}, depth \in DepthLines}

\* the stage labels of the stagers and of the fallback of determineTNMStage
StageLabels ==
    {S_Stage_I, S_Stage_II, S_Stage_II_III, S_Stage_III, S_Stage_IIIA, S_Stage_IIIB,
     S_Stage_IV, S_Stage_IVA, S_Stage_IVB, S_Stage_IVC, S_Stage_Unknown, S_Not_available}

TreatmentInputs ==
    {<<cancerType, stage>> : cancerType \in ExtractedTypeNames \cup OtherTypeNames,
                             stage \in StageLabels}

ExtractInputs ==
    {[fn |-> "extractCancerType", arg |-> text] : text \in CancerTypeTexts}
        \cup {[fn |-> "extractTumorSize", arg |-> matches] : matches \in SizeMatchLists}
        \cup {[fn |-> "extractLymphNodes", arg |-> matches] : matches \in NodeMatchLists}
        \cup {[fn |-> "extractMetastasis", arg |-> text] : text \in MetastasisTexts}
        \cup {[fn |-> "extractFeatures", arg |-> text] : text \in FeaturesTexts}
        \cup {[fn |-> "stageReport", arg |-> text] : text \in StagedReportTexts}
        \cup {[fn |-> "getTreatmentGuidelines", arg |-> pair] : pair \in TreatmentInputs}

InitExtract ==
    /\ inExtract \in ExtractInputs
    /\ outExtract = Null
    /\ StagingIdle
    /\ AnswerIdle
    /\ ProcessorInit
    /\ AppInit

\* the function named fn is called and returns result
ExtractCall(fn, result) ==
    /\ outExtract = Null
    /\ inExtract.fn = fn
    /\ outExtract' = result
    /\ UNCHANGED <<inExtract, stagingVars, answerVars, processorVars, appVars>>

CallExtractCancerType == ExtractCall("extractCancerType", extractCancerType(inExtract.arg))

CallExtractTumorSize == ExtractCall("extractTumorSize", tumorSizeOfMatches(inExtract.arg))

CallExtractLymphNodes == ExtractCall("extractLymphNodes", lymphNodesOfMatches(inExtract.arg))

CallExtractMetastasis == ExtractCall("extractMetastasis", extractMetastasis(inExtract.arg))

CallExtractFeatures == ExtractCall("extractFeatures", extractFeatures(inExtract.arg))

CallStageReport == ExtractCall("stageReport", stageReport(inExtract.arg))

CallGetTreatmentGuidelines ==
    ExtractCall("getTreatmentGuidelines",
                getTreatmentGuidelines(inExtract.arg[1], inExtract.arg[2]))

NextExtract ==
    \/ CallExtractCancerType
    \/ CallExtractTumorSize
    \/ CallExtractLymphNodes
    \/ CallExtractMetastasis
    \/ CallExtractFeatures
    \/ CallStageReport
    \/ CallGetTreatmentGuidelines

SpecExtract == InitExtract /\ [][NextExtract]_vars

(***************************************************************************)
(* Properties of the staging engine (SpecStaging)                          *)
(***************************************************************************)
\* the spellings of each name extractCancerType can return
Spellings == [name \in ExtractedTypeNames |-> Casings(name)]

\* the stager that belongs to each name extractCancerType can return
OwnStager(name, f) ==
    CASE name = S_gallbladder   -> stageGallbladderCancer(f)
      [] name = S_esophageal    -> stageEsophagealCancer(f)
      [] name = S_breast        -> stageBreastCancer(f)
      [] name = S_lung          -> stageLungCancer(f)
      [] name = S_colorectal    -> stageColorectalCancer(f)
      [] name = S_head_and_neck -> stageHeadNeckCancer(f)

\* C1: each of the six names extractCancerType can return, written in any
\* letter case, is dispatched to its own stager; the result is never the
\* fallback whose stage is 'Not available'.
C1_SixTypesDispatched ==
    \A name \in ExtractedTypeNames :
        (outStaging # Null /\ inCancerType \in Spellings[name])
            => /\ outStaging = OwnStager(name, inFeatures)
               /\ outStaging.stage # S_Not_available

\* C1 witness: 'HEAD AND NECK' with metastasis was staged by the head and
\* neck stager.
C1_Witness ==
    /\ outStaging # Null
    /\ inCancerType = toUpperCase(S_head_and_neck)
    /\ inCancerType # S_head_and_neck
    /\ outStaging.stage = S_Stage_IVC

\* the stage label each supported type gives to metastatic disease
MetastaticLabel(name) ==
    CASE name \in {S_gallbladder, S_esophageal}     -> S_Stage_IVB
      [] name \in {S_breast, S_lung, S_colorectal}  -> S_Stage_IV
      [] name = S_head_and_neck                     -> S_Stage_IVC

\* C2: for the six supported types, M is 'M1' and the stage is the type's
\* metastatic label exactly when distant_metastasis is true, whatever T and N
\* are; otherwise M is 'M0' and that label is not returned.
C2_MetastasisDecidesTopStage ==
    \A name \in ExtractedTypeNames :
        (outStaging # Null /\ inCancerType \in Spellings[name])
            => IF inFeatures.distant_metastasis
               THEN outStaging.M = S_M1 /\ outStaging.stage = MetastaticLabel(name)
               ELSE outStaging.M = S_M0 /\ outStaging.stage # MetastaticLabel(name)

\* C2 witness: a breast tumour of 1 cm without nodes (T1 N0) and with distant
\* metastasis was staged 'Stage IV'.
C2_Witness ==
    /\ outStaging # Null
    /\ inCancerType = S_breast
    /\ inFeatures.distant_metastasis
    /\ outStaging.T = S_T1 /\ outStaging.N = S_N0 /\ outStaging.M = S_M1
    /\ outStaging.stage = S_Stage_IV

\* C3 (as claimed): for the six supported types no combination of features is
\* staged 'Stage Unknown'.
C3_NeverStageUnknown ==
    \A name \in ExtractedTypeNames :
        (outStaging # Null /\ inCancerType \in Spellings[name])
            => outStaging.stage # S_Stage_Unknown

\* C4: a cancerType whose lower-cased value has no case label gets T = N = M =
\* 'Unknown', stage 'Not available' and the description 'Staging not available
\* for ' followed by cancerType as it was given, whatever the features are.
C4_UnsupportedTypeFallback ==
    (outStaging # Null /\ toLowerCase(inCancerType) \notin StagedTypeNames)
        => /\ outStaging.T = S_Unknown /\ outStaging.N = S_Unknown /\ outStaging.M = S_Unknown
           /\ outStaging.stage = S_Not_available
           /\ outStaging.description = S_Staging_not_available_for \o inCancerType

\* C4 witness: 'Prostate' was answered 'Staging not available for Prostate',
\* and the empty type by the bare prefix.
C4_Witness ==
    /\ outStaging # Null
    /\ inCancerType = <<"P", "r", "o", "s", "t", "a", "t", "e">>
    /\ inFeatures.distant_metastasis
    /\ outStaging.stage = S_Not_available
    /\ SubSeq(outStaging.description, Len(S_Staging_not_available_for) + 1, Len(outStaging.description))
          = <<"P", "r", "o", "s", "t", "a", "t", "e">>

\* the stager a case label of determineTNMStage leads to, by the name
\* extractCancerType gives it
StagerName ==
    [name \in StagedTypeNames |->
        IF name \in {S_oral_cavity, S_oropharynx} THEN S_head_and_neck ELSE name]

\* determineTNMStage was called with a cancer type of stager `name'
StagedBy(name) ==
    /\ outStaging # Null
    /\ toLowerCase(inCancerType) \in StagedTypeNames
    /\ StagerName[toLowerCase(inCancerType)] = name

\* the order of the categories of N and of T
NRank == (S_N0 :> 0) @@ (S_N1 :> 1) @@ (S_N2 :> 2) @@ (S_N3 :> 3)

TRank == (S_T1 :> 1) @@ (S_T2 :> 2) @@ (S_T3 :> 3) @@ (S_T4 :> 4)

\* the N category the thresholds give to n involved nodes
ThresholdN(name, n) ==
    CASE n = 0 -> S_N0
      [] n > 0 /\ name \in {S_gallbladder, S_lung, S_colorectal} ->
            IF n <= 3 THEN S_N1 ELSE S_N2
      [] n > 0 /\ name = S_esophageal ->
            IF n <= 2 THEN S_N1 ELSE IF n <= 6 THEN S_N2 ELSE S_N3
      [] n > 0 /\ name = S_breast ->
            IF n <= 3 THEN S_N1 ELSE IF n <= 9 THEN S_N2 ELSE S_N3
      [] n > 0 /\ name = S_head_and_neck ->
            IF n = 1 THEN S_N1 ELSE IF n <= 3 THEN S_N2 ELSE S_N3

\* C11: for every supported cancer type and every count n of involved nodes
\* the N category is the one of the thresholds (gallbladder, lung, colorectal
\* 1-3 N1, from 4 N2; esophageal 1-2 N1, 3-6 N2, from 7 N3; breast 1-3 N1, 4-9
\* N2, from 10 N3; head and neck 1 N1, 2-3 N2, from 4 N3); it is N0 exactly
\* when n = 0 and is not lower than the category of any smaller count.
C11_NodeThresholds ==
    \A name \in ExtractedTypeNames :
        StagedBy(name) =>
            /\ outStaging.N = ThresholdN(name, inFeatures.lymph_nodes_involved)
            /\ (outStaging.N = S_N0) <=> (inFeatures.lymph_nodes_involved = 0)
            /\ \A m \in 0..inFeatures.lymph_nodes_involved :
                  NRank[determineTNMStage(inCancerType,
                            [inFeatures EXCEPT !.lymph_nodes_involved = m]).N]
                      <= NRank[outStaging.N]

\* C11 witness: two involved nodes are N2 for 'Oral Cavity', and ten are N3
\* for breast.
C11_Witness ==
    \/ /\ StagedBy(S_head_and_neck)
       /\ inCancerType = Capitalize(S_oral_cavity)
       /\ inFeatures.lymph_nodes_involved = 2
       /\ outStaging.N = S_N2
    \/ /\ StagedBy(S_breast)
       /\ inFeatures.lymph_nodes_involved = 10
       /\ outStaging.N = S_N3

\* the T category the size ranges give to a size (in 0.01 cm); for
\* gallbladder a size above 0 without liver invasion
ThresholdT(name, size) ==
    CASE name = S_breast ->
            IF size <= Cm(2) THEN S_T1 ELSE IF size <= Cm(5) THEN S_T2 ELSE S_T3
      [] name = S_lung ->
            IF size <= Cm(3) THEN S_T1 ELSE IF size <= Cm(5) THEN S_T2
            ELSE IF size <= Cm(7) THEN S_T3 ELSE S_T4
      [] name = S_head_and_neck ->
            IF size <= Cm(2) THEN S_T1 ELSE IF size <= Cm(4) THEN S_T2 ELSE S_T3
      [] name = S_gallbladder ->
            IF size > Cm(2) THEN S_T2 ELSE S_T1

\* the sizes of the inputs from `low' up to that of the call
SizesUpTo(low) ==
    {size \in {Cm(k) : k \in 0..MaxSizeCm} : low <= size /\ size <= inFeatures.tumor_size_cm}

\* C12: for the size-based stagers T follows the size ranges with inclusive
\* upper bounds (breast up to 2 T1, up to 5 T2, else T3; lung up to 3 T1, up
\* to 5 T2, up to 7 T3, else T4; head and neck up to 2 T1, up to 4 T2, else
\* T3; gallbladder above 2 T2, above 0 up to 2 T1, and T3 with liver invasion
\* whatever the size), and T is not lower than for any smaller size.
C12_SizeThresholds ==
    /\ \A name \in {S_breast, S_lung, S_head_and_neck} :
          StagedBy(name) =>
              /\ outStaging.T = ThresholdT(name, inFeatures.tumor_size_cm)
              /\ \A size \in SizesUpTo(0) :
                    TRank[determineTNMStage(inCancerType,
                              [inFeatures EXCEPT !.tumor_size_cm = size]).T]
                        <= TRank[outStaging.T]
    /\ StagedBy(S_gallbladder) =>
          /\ inFeatures.liver_invasion => outStaging.T = S_T3
          /\ (~inFeatures.liver_invasion /\ inFeatures.tumor_size_cm > 0) =>
                /\ outStaging.T = ThresholdT(S_gallbladder, inFeatures.tumor_size_cm)
                /\ \A size \in SizesUpTo(Cm(1)) :
                      TRank[determineTNMStage(inCancerType,
                                [inFeatures EXCEPT !.tumor_size_cm = size]).T]
                          <= TRank[outStaging.T]

\* C12 witness: a lung tumour of exactly 7 cm is T3, one of 8 cm is T4, and a
\* gallbladder tumour of 1 cm with liver invasion is T3.
C12_Witness ==
    \/ /\ StagedBy(S_lung)
       /\ inFeatures.tumor_size_cm = Cm(7)
       /\ outStaging.T = S_T3
    \/ /\ StagedBy(S_lung)
       /\ inFeatures.tumor_size_cm = Cm(8)
       /\ outStaging.T = S_T4
    \/ /\ StagedBy(S_gallbladder)
       /\ inFeatures.liver_invasion
       /\ inFeatures.tumor_size_cm = Cm(1)
       /\ outStaging.T = S_T3

\* C13 (as claimed): with tumor_size_cm = 0 and no liver invasion each
\* size-based stager returns T = 'Tx', and with no nodes and no metastasis
\* either the stage is not 'Stage I'.
C13_NoSizeIsTx ==
    \A name \in {S_gallbladder, S_breast, S_lung, S_head_and_neck} :
        (StagedBy(name) /\ inFeatures.tumor_size_cm = 0 /\ ~inFeatures.liver_invasion)
            => /\ outStaging.T = S_Tx
               /\ (inFeatures.lymph_nodes_involved = 0 /\ ~inFeatures.distant_metastasis)
                     => outStaging.stage # S_Stage_I

\* C14 (as claimed): gallbladder 'Stage IIIA', esophageal 'Stage III' and
\* colorectal 'Stage III' are returned only with N other than 'N0', that is
\* with lymph_nodes_involved > 0.
C14_NodalStageNeedsNodes ==
    /\ (StagedBy(S_gallbladder) /\ outStaging.stage = S_Stage_IIIA)
          => (outStaging.N # S_N0 /\ inFeatures.lymph_nodes_involved > 0)
    /\ (StagedBy(S_esophageal) /\ outStaging.stage = S_Stage_III)
          => (outStaging.N # S_N0 /\ inFeatures.lymph_nodes_involved > 0)
    /\ (StagedBy(S_colorectal) /\ outStaging.stage = S_Stage_III)
          => (outStaging.N # S_N0 /\ inFeatures.lymph_nodes_involved > 0)

\* the stage labels that have an entry in the description table of each type
DescribedStages ==
    (S_gallbladder :> {S_Stage_I, S_Stage_II, S_Stage_IIIA, S_Stage_IIIB, S_Stage_IVA,
                       S_Stage_IVB}) @@
    (S_esophageal :> {S_Stage_I, S_Stage_II, S_Stage_III, S_Stage_IVA, S_Stage_IVB}) @@
    (S_breast :> {S_Stage_I, S_Stage_II, S_Stage_III, S_Stage_IV}) @@
    (S_lung :> {S_Stage_I, S_Stage_II, S_Stage_III, S_Stage_IV}) @@
    (S_colorectal :> {S_Stage_I, S_Stage_II, S_Stage_III, S_Stage_IV}) @@
    (S_head_and_neck :> {S_Stage_I, S_Stage_II, S_Stage_III, S_Stage_IVA, S_Stage_IVC})

\* C23 (as claimed): for the six supported types and all feature values, a
\* returned stage other than 'Stage Unknown' has an entry in the description
\* table of the type, and the returned description is neither the stage label
\* itself nor 'Staging information not available'.
C23_DefiniteStageIsDescribed ==
    \A name \in ExtractedTypeNames :
        (StagedBy(name) /\ outStaging.stage # S_Stage_Unknown)
            => /\ outStaging.stage \in DescribedStages[name]
               /\ outStaging.description # outStaging.stage
               /\ outStaging.description # S_Staging_information_not_available

(***************************************************************************)
(* Properties of generateAnswer (SpecAnswer)                               *)
(***************************************************************************)
EndsWith(s, suffix) ==
    Len(s) >= Len(suffix) /\ SubSeq(s, Len(s) - Len(suffix) + 1, Len(s)) = suffix

\* the template an answer was made from, recognised by its fixed text
TemplateOf(text) ==
    IF startsWith(text, A_stage_1) /\ EndsWith(text, A_stage_3) /\ includes(text, A_stage_2)
        THEN "stage"
    ELSE IF startsWith(text, A_treatment_1) /\ EndsWith(text, A_treatment_3)
        THEN "treatment"
    ELSE IF startsWith(text, A_mean_1) /\ EndsWith(text, A_mean_4)
        THEN "mean or simple"
    ELSE IF text = A_next_steps
        THEN "next steps"
    ELSE IF startsWith(text, A_default_1) /\ EndsWith(text, A_default_3)
        THEN "default"
    ELSE "none"

\* the first keyword, in the order of the claim, that the lower-cased question
\* contains
FirstKeyword(q) ==
    LET l == toLowerCase(q)
    IN  IF includes(l, K_stage) THEN "stage"
        ELSE IF includes(l, K_treatment) THEN "treatment"
        ELSE IF includes(l, K_mean) \/ includes(l, K_simple) THEN "mean or simple"
        ELSE IF includes(l, K_next_steps) THEN "next steps"
        ELSE "default"

\* no stage to show: staging is absent
NoStage(r) == r.staging = Null

\* no cancer type to show: features are absent or the type is the empty string
NoCancerType(r) == r.features = Null \/ (r.features # Null /\ r.features.cancer_type = <<>>)

\* C9: the answer is made from the template of the first keyword, in the order
\* stage, treatment, mean or simple, next steps, that occurs in the lower-cased
\* question, and from the default template when none occurs; an absent stage
\* is shown as 'Unknown' or 'unknown stage' and an absent cancer type as
\* 'cancer'.
C9_AnswerByFirstKeyword ==
    outAnswer # Null =>
        /\ TemplateOf(outAnswer.text) = FirstKeyword(inQuestion)
        /\ (NoStage(inResults) /\ FirstKeyword(inQuestion) = "stage")
              => startsWith(outAnswer.text, A_stage_1 \o S_Unknown \o A_stage_2)
        /\ (NoStage(inResults) /\ NoCancerType(inResults) /\ FirstKeyword(inQuestion) = "treatment")
              => outAnswer.text = A_treatment_1 \o F_cancer \o A_treatment_2
                                  \o F_unknown_stage \o A_treatment_3
        /\ (NoStage(inResults) /\ NoCancerType(inResults) /\ FirstKeyword(inQuestion) = "mean or simple")
              => startsWith(outAnswer.text,
                            A_mean_1 \o S_Unknown \o A_mean_2 \o F_cancer \o A_mean_3)
        /\ (NoStage(inResults) /\ NoCancerType(inResults) /\ FirstKeyword(inQuestion) = "default")
              => outAnswer.text = A_default_1 \o F_cancer \o A_default_2
                                  \o F_unknown_stage \o A_default_3

\* C9 witness: 'treatment Stage meaning' holds three keywords, the first of
\* them in another letter case; with no staging and no features it was
\* answered from the stage template with the stage shown as 'Unknown'.
C9_Witness ==
    /\ outAnswer # Null
    /\ inQuestion = <<"t", "r", "e", "a", "t", "m", "e", "n", "t", " ", "S", "t", "a", "g", "e",
                    " ", "m", "e", "a", "n", "i", "n", "g">>
    /\ inResults.staging = Null /\ inResults.features = Null
    /\ outAnswer.text = A_stage_1 \o S_Unknown \o A_stage_2
                        \o F_staging_information_is_not_available \o A_stage_3

(***************************************************************************)
(* Properties of DocumentProcessor.processDocument (SpecProcessor)         *)
(***************************************************************************)
\* a call of processDocument has ended
EndedProcessDocument == returned # Null /\ returned.op = "processDocument"

\* the three kinds of file type of the claim
AcceptedType(type) ==
    \/ type = S_application_pdf
    \/ type = S_docx_mime
    \/ startsWith(type, S_image_slash)

UnsupportedFileTypeError == Error(E_Document_processing_failed \o E_Unsupported_file_type)

\* C7: processDocument accepts the PDF type, the DOCX type and the types
\* starting with 'image/'.  For every other type it ends with the error
\* 'Document processing failed: Unsupported file type' and has invoked none of
\* the PDF, DOCX and OCR libraries; for the three kinds it never ends with that
\* error.  A returned result has one of the four method names, and page_count 1
\* unless the file is a PDF.
C7_ThreeKindsOfFile ==
    EndedProcessDocument =>
        /\ ~AcceptedType(returned.file.type)
            => /\ returned.result = Thrown(UnsupportedFileTypeError)
               /\ returned.libs = {}
        /\ AcceptedType(returned.file.type)
            => returned.result # Thrown(UnsupportedFileTypeError)
        /\ returned.result.status = "returned"
            => /\ returned.result.value.method \in
                    {S_standard_extraction, S_pdf_ocr, S_docx_extraction, S_tesseract_ocr}
               /\ returned.file.type # S_application_pdf
                    => returned.result.value.page_count = 1

\* C7 witness: a file of type 'IMAGE/PNG' was refused without a library call
\* while another call, of OCR on a scanned PDF, was in progress.
C7_Witness ==
    /\ EndedProcessDocument
    /\ returned.file.type = toUpperCase(S_image_slash \o <<"p", "n", "g">>)
    /\ returned.result = Thrown(UnsupportedFileTypeError)
    /\ returned.libs = {}
    /\ \E c \in CallIds : calls[c].pc = "recognize" /\ calls[c].path = "pdf"

\* C8 (as claimed): a result returned by processDocument never carries an empty
\* text, whatever the kind of file.
C8_ReturnedTextNotEmpty ==
    (EndedProcessDocument /\ returned.result.status = "returned")
        => returned.result.value.text # <<>>

\* processDocument has returned a result for a PDF file
ReturnedForPdf ==
    /\ EndedProcessDocument
    /\ returned.file.type = S_application_pdf
    /\ returned.result.status = "returned"

\* C15: for a PDF whose extracted text, trimmed, is longer than 100
\* characters processDocument returns the trimmed text of all pages with
\* method 'standard_extraction' and confidence 0.95 and has not invoked
\* Tesseract; with 100 characters or fewer it has handed page 1 to OCR and
\* returns method 'pdf_ocr' with the OCR confidence divided by 100; in both
\* cases page_count is the number of pages of the PDF.
C15_PdfExtractionOrOcr ==
    ReturnedForPdf =>
        LET result == returned.result.value
            text == trim(pdfText(returned.pdf))
        IN  /\ result.page_count = Len(returned.pdf)
            /\ IF Len(text) > 100
               THEN /\ result.method = S_standard_extraction
                    /\ result.confidence = 95
                    /\ result.text = text
                    /\ "tesseract" \notin returned.libs
                    /\ returned.rendered = 0
                    /\ returned.data = Null
               ELSE /\ result.method = S_pdf_ocr
                    /\ returned.rendered = 1
                    /\ returned.data # Null
                    /\ result.confidence * 100 = returned.data.confidence

\* C15 witness: a one-page PDF of exactly 100 characters has gone through OCR
\* with confidence 87, or a two-page PDF of 101 characters has been extracted
\* directly.
C15_Witness ==
    /\ ReturnedForPdf
    /\ \/ /\ returned.pdf = <<R_breast>>
          /\ returned.result.value.method = S_pdf_ocr
          /\ returned.result.value.confidence = 87
       \/ /\ returned.pdf = <<R_rectal, R_rectal>>
          /\ returned.result.value.method = S_standard_extraction
          /\ returned.result.value.page_count = 2


\* the calls in which createWorker has been invoked and has not settled
CreatingWorker == {c \in CallIds : calls[c].pc = "createWorker"}

\* createWorker is invoked only while no worker is referenced and no other
\* invocation is pending
OneCreateWorker ==
    /\ Cardinality(CreatingWorker) <= 1
    /\ tesseractWorker # NoWorker => CreatingWorker = {}

\* every worker created is the one referenced or has been terminated
NoWorkerIsLost ==
    \A w \in 1..workersCreated : w = tesseractWorker \/ w \in terminated

\* a cleanup has returned last and no call is in progress
CleanedUp ==
    /\ returned # Null
    /\ returned.op = "cleanup"
    /\ returned.result.status = "returned"
    /\ \A c \in CallIds : Free(c)

\* C30 (as claimed): under every interleaving of initializeTesseract,
\* processDocument and cleanup a DocumentProcessor holds at most one worker:
\* createWorker is invoked at most once between two cleanups, every worker
\* created is the one referenced or has been terminated, and after cleanup
\* has completed the reference is null.
C30_AtMostOneWorker ==
    /\ OneCreateWorker
    /\ NoWorkerIsLost
    /\ CleanedUp => tesseractWorker = NoWorker
(***************************************************************************)
(* Claims about handleFileSelect                                           *)
(***************************************************************************)
IsPrefix(s, t) == Len(s) <= Len(t) /\ SubSeq(t, 1, Len(s)) = s

Last(s) == s[Len(s)]

\* the call of processDocument made by the run has returned the OCRResult
\* the run holds
ProcessDocumentHasReturned ==
    /\ calls[1].pc = "idle"
    /\ returned # Null
    /\ returned.op = "processDocument"
    /\ returned.file = run.file
    /\ returned.result = Returned(run.ocrResult)

\* C5: in every run of handleFileSelect the pipeline is linear: the values the
\* run gives to current_step are 2, 3, 4, 5 in this order, those it gives to
\* processingProgress are (0,) 20, 50, 70, 90, 100 in this order, the features
\* are extracted only once processDocument has returned and from the text it
\* returned, and the staging is computed from the features of the same run.
C5_PipelineIsLinear ==
    run.pc # "idle" =>
        /\ IsPrefix(run.steps, <<2, 3, 4, 5, 5>>)
        /\ IsPrefix(run.progress, <<0, 20, 50, 70, 90, 100>>)
        /\ appState.current_step = Last(run.steps)
        /\ processingProgress \in {0, Last(run.progress)}
        /\ run.featuresResult # Null =>
              /\ ProcessDocumentHasReturned
              /\ run.featuresResult.status = "returned" =>
                    run.featuresResult.value = extractFeatures(run.ocrResult.text)
        /\ run.features # Null => run.featuresResult = Returned(run.features)
        /\ run.staging # Null =>
              /\ run.features # Null
              /\ run.staging = determineTNMStage(run.features.cancer_type, run.features)
              /\ appState.processing_results.features = run.features
              /\ appState.processing_results.staging = run.staging
              /\ appState.processing_results.document.text = run.ocrResult.text

\* C5 witness: the second run has gone through all steps for a two-page PDF
\* about breast cancer, after a first run whose document was another one.
C5_Witness ==
    /\ run.id = 2
    /\ run.pc = "ended"
    /\ run.steps = <<2, 3, 4, 5, 5>>
    /\ run.progress = <<0, 20, 50, 70, 90, 100>>
    /\ run.ocrResult.method = S_standard_extraction
    /\ run.features.cancer_type = S_breast
    /\ run.staging.stage # S_Not_available
    /\ appState.processing_results.success

\* the run has ended in the catch clause
RunFailed == run.pc = "ended" /\ run.error # Null

\* C6 (state part): after a throw of processDocument, extractFeatures or
\* determineTNMStage no later step has been executed, processing_results is
\* { success: false, error: <message> } and nothing else, current_step is that
\* of the step that failed, and the Q&A and feedback sections are not shown.
C6_FailedRun ==
    RunFailed =>
        /\ appState.processing_results =
              ProcessingResult(FALSE, Null, Null, Null, Null,
                               [text |-> messageOf(run.error, E_Processing_failed)])
        /\ run.staging = Null
        /\ ~QASectionShown
        /\ CASE run.ocrResult = Null ->
                  /\ returned.result = Thrown(run.error)
                  /\ run.featuresResult = Null
                  /\ run.steps = <<2>>
                  /\ appState.current_step = 2
             [] run.ocrResult # Null /\ run.features = Null ->
                  /\ run.featuresResult = Thrown(run.error)
                  /\ run.steps = <<2, 3>>
                  /\ appState.current_step = 3
             [] OTHER ->
                  /\ run.steps = <<2, 3, 4>>
                  /\ appState.current_step = 4

\* C6 (step part): while processing_results is not a success no summary is
\* downloaded.
C6_NoDownload ==
    (appState.processing_results = Null \/ ~appState.processing_results.success)
        => downloads' = downloads

\* C6: a throw of processDocument, extractFeatures or determineTNMStage ends the
\* run with a failure result and nothing else, at the step that failed, and
\* while the result is a failure the Q&A and feedback sections are not shown
\* and handleDownload does nothing.
C6_FailureEndsTheRun == []C6_FailedRun /\ [][C6_NoDownload]_vars

\* C6 witness: after a summary of the first document was downloaded, the second
\* run failed in extractFeatures and stays at step 3.
C6_Witness ==
    /\ RunFailed
    /\ run.id = 2
    /\ downloads = 1
    /\ run.ocrResult # Null
    /\ run.featuresResult = Thrown(run.error)
    /\ appState.current_step = 3
    /\ ~appState.processing_results.success

\* the result of the run that has ended is in processing_results
ResultOfRunIsSet ==
    appState.processing_results =
        IF run.error # Null
        THEN errorResult(run.error, run)
        ELSE successResult(run.file, run.ocrResult, run.features, run.staging)

\* a run is replaced by a new one only when it has ended
RunsFollowEachOther == run'.id # run.id => run.pc \in {"idle", "ended"}

\* C10: when every library promise settles, every run of handleFileSelect that
\* was started ends with isProcessing false and with its success result or its
\* failure result in processing_results: a run in progress leads to the end of
\* the run, and no other run takes its place before.
C10_EveryRunEnds ==
    /\ [][RunsFollowEachOther]_vars
    /\ (run.pc \in {"processDocument", "extractFeatures"})
          ~> (run.pc = "ended" /\ ~isProcessing /\ ResultOfRunIsSet)

\* C10 witness: the second run has ended, after OCR of a scanned PDF failed
\* because recognize was rejected.
C10_Witness ==
    /\ run.id = 2
    /\ run.pc = "ended"
    /\ ~isProcessing
    /\ ResultOfRunIsSet
    /\ run.error # Null
    /\ returned.path = "pdf"
    /\ "tesseract" \in returned.libs


\* the steps displayed as completed
CompletedSet ==
    LET completed == completedSteps(appState)
    IN  {completed[i] : i \in 1..Len(completed)}

\* C24: after any sequence of successful and failed runs the set of steps
\* displayed as completed is downward closed and is one of {}, {1,2} and
\* {1,2,3,4,5}, and a success result is never present while ocr_result is null.
C24_CompletedStepsAreClosed ==
    /\ \A k \in CompletedSet : \A j \in 1..k : j \in CompletedSet
    /\ CompletedSet \in {{}, {1, 2}, {1, 2, 3, 4, 5}}
    /\ (appState.processing_results # Null /\ appState.processing_results.success)
          => appState.ocr_result # Null

\* C24 witness: the second run has failed in processDocument after the first
\* one succeeded, and steps 1 and 2 are displayed as completed.
C24_Witness ==
    /\ run.id = 2
    /\ RunFailed
    /\ run.ocrResult = Null
    /\ appState.ocr_result # Null
    /\ CompletedSet = {1, 2}

\* stage k of the run started last has finished
StageFinished(k) ==
    CASE k = 2 -> run.ocrResult # Null
      [] k = 3 -> run.features # Null
      [] k = 4 -> run.staging # Null
      [] k = 5 -> run.pc = "ended" /\ run.error = Null

\* C25 (as claimed): at every moment a step k in 2..5 is displayed as
\* completed only if stage k of the run started last has finished, and while
\* isProcessing is true no results of a document processed before are
\* displayed.
C25_ProgressOfCurrentDocument ==
    /\ \A k \in 2..5 : shownStatus(k) = "completed" => StageFinished(k)
    /\ isProcessing => appState.processing_results = Null

\* C26 (state part): while a run is in progress processingProgress is at
\* least 20.
C26_AtLeast20 == isProcessing => processingProgress >= 20

\* C26 (step part): while a run is in progress processingProgress does not
\* decrease.
C26_NoDecrease == (isProcessing /\ isProcessing') => processingProgress' >= processingProgress

\* C26 (as claimed): while a run of handleFileSelect is in progress
\* processingProgress never decreases and is at least 20, whatever the moment
\* at which the reset timer set at the end of the run before fires.
C26_ProgressWhileProcessing == []C26_AtLeast20 /\ [][C26_NoDecrease]_vars

\* C27 (as claimed): a step of 2..5 is displayed with status 'current' only
\* while a run is in progress; once a run has ended in failure and
\* isProcessing is false none is.
C27_CurrentOnlyWhileProcessing ==
    /\ \A k \in 2..5 : shownStatus(k) = "current" => isProcessing
    /\ (RunFailed /\ ~isProcessing) => \A k \in 2..5 : shownStatus(k) # "current"

\* a run is in flight: it has been started and has not reached the end of
\* its finally block
RunInFlight == run.pc \in {"processDocument", "extractFeatures"}

\* C28 (step part): a run is started only while no run is in flight and
\* isProcessing is false, and after the run before has set its result.
C28_StartsAfterTheResult ==
    run'.id # run.id =>
        /\ ~isProcessing
        /\ ~RunInFlight
        /\ run.id > 0 => (run.pc = "ended" /\ ResultOfRunIsSet)

\* C28: at most one run of handleFileSelect is in flight: isProcessing is true
\* exactly while the run started last is in flight, and a run is started only
\* while isProcessing is false, after the run before has set its success or
\* failure result.
C28_OneRunInFlight == [](isProcessing <=> RunInFlight) /\ [][C28_StartsAfterTheResult]_vars

\* C28 witness: the second run is in flight and the result of the first one,
\* a failure, is in processing_results.
C28_Witness ==
    /\ run.id = 2
    /\ RunInFlight
    /\ isProcessing
    /\ appState.processing_results # Null
    /\ ~appState.processing_results.success

(***************************************************************************)
(* Claims about the extraction functions                                   *)
(***************************************************************************)
\* the function named fn has been called and has returned
Extracted(fn) == outExtract # Null /\ inExtract.fn = fn

\* the order in which the cancer types are scored
TypeOrder ==
    <<S_gallbladder, S_esophageal, S_breast, S_lung, S_colorectal, S_head_and_neck>>

\* the keywords of a cancer type
KeywordsOf(type) ==
    LET entry == CHOOSE i \in 1..Len(cancerKeywords) : cancerKeywords[i].cancerType = type
    IN  {cancerKeywords[entry].keywords[k] : k \in 1..Len(cancerKeywords[entry].keywords)}

\* the words of the keywords of a type that occur in a lower-cased text, one
\* pair for each word of each keyword that occurs
WordsFound(type, textLower) ==
    UNION {{<<keyword, w>> : w \in 0..Cardinality({i \in 1..Len(keyword) : keyword[i] = " "})} :
              keyword \in {k \in KeywordsOf(type) : includes(textLower, k)}}

\* the scores of the six types in units of 0.3
TypeScores(text) ==
    [i \in 1..Len(TypeOrder) |-> Cardinality(WordsFound(TypeOrder[i], toLowerCase(text)))]

\* C16: extractCancerType scores each type as 0.3 times the number of words
\* of its keywords that occur in the lower-cased text and returns the type of
\* the highest score, the first of them in the order gallbladder, esophageal,
\* breast, lung, colorectal, head and neck; the type is '' exactly when no
\* keyword occurs, and the confidence is min(score / 3, 1), that is a tenth
\* for each word up to 1, and is 0 exactly when the type is ''.
C16_BestScoringType ==
    Extracted("extractCancerType") =>
        LET score == TypeScores(inExtract.arg)
            best  == Max({score[i] : i \in 1..Len(TypeOrder)})
        IN  /\ (outExtract.type = <<>>) <=> (best = 0)
            /\ best > 0 =>
                  \E i \in 1..Len(TypeOrder) :
                      /\ outExtract.type = TypeOrder[i]
                      /\ score[i] = best
                      /\ \A j \in 1..(i - 1) : score[j] < best
            /\ outExtract.confidence = (IF best * 10 <= 100 THEN best * 10 ELSE 100)
            /\ (outExtract.confidence = 0) <=> (outExtract.type = <<>>)

\* C16 witness: two types have the same highest score, the one that comes
\* later in the order stands first in the text, and the earlier one is
\* returned.
C16_Witness ==
    /\ Extracted("extractCancerType")
    /\ LET score == TypeScores(inExtract.arg)
           best  == Max({score[i] : i \in 1..Len(TypeOrder)})
       IN  /\ best = 2
           /\ score[2] = best /\ score[4] = best
           /\ startsWith(inExtract.arg, <<"N", "S", "C", "L", "C">>)
           /\ outExtract.type = S_esophageal
           /\ outExtract.confidence = 20

\* 'no ', 'without', 'negative', 'absent'
NegationWords ==
    {<<"n", "o", " ">>, <<"w", "i", "t", "h", "o", "u", "t">>,
     <<"n", "e", "g", "a", "t", "i", "v", "e">>, <<"a", "b", "s", "e", "n", "t">>}

\* a negation word lies within the 50 characters before the character at
\* index (counted from 0) of text
NegationBefore(text, index) ==
    \E word \in NegationWords :
        \E first \in 1..index :
            /\ first >= index - 49
            /\ first + Len(word) - 1 <= index
            /\ toLowerCase(SubSeq(text, first, first + Len(word) - 1)) = word

\* the indices of the mentions of metastasis in a text
MentionsOf(text) ==
    LET matches == matchAll(metastasisPattern_matches, text)
    IN  {matches[i].index : i \in 1..Len(matches)}

\* C17: extractMetastasis returns hasMetastasis = true, with confidence 0.9,
\* if and only if the text has a mention of metastasis and no mention has a
\* negation word in the 50 characters before it; with a negated mention the
\* result is false with confidence 0.8 whatever the other mentions, and with
\* no mention it is false with confidence 0.6.
C17_MetastasisUnlessNegated ==
    Extracted("extractMetastasis") =>
        LET mentions == MentionsOf(inExtract.arg)
            negatedMentions == {index \in mentions : NegationBefore(inExtract.arg, index)}
        IN  /\ outExtract.hasMetastasis <=> (mentions # {} /\ negatedMentions = {})
            /\ outExtract.hasMetastasis => outExtract.confidence = 90
            /\ negatedMentions # {} => outExtract.confidence = 80
            /\ mentions = {} => outExtract.confidence = 60

\* C17 witness: a text with a mention that is not negated followed by one that
\* is, for which false is returned with confidence 0.8.
C17_Witness ==
    /\ Extracted("extractMetastasis")
    /\ LET mentions == MentionsOf(inExtract.arg)
       IN  \E plain \in mentions, denied \in mentions :
              /\ plain < denied
              /\ ~NegationBefore(inExtract.arg, plain)
              /\ NegationBefore(inExtract.arg, denied)
    /\ ~outExtract.hasMetastasis
    /\ outExtract.confidence = 80

\* the first dimension of a size match, in 0.001 cm
Millimetres(match) ==
    IF toLowerCase(match.g2) = <<"m", "m">> THEN parseFloat(match.g1)
    ELSE parseFloat(match.g1) * 10

\* C18: given the size matches of a text, extractTumorSize returns the largest
\* size in centimetres, a size in mm being a tenth of its number, with
\* confidence 0.9 for one match and 0.7 for several; with no match it returns
\* size 0 and confidence 0.
C18_LargestSizeInCm ==
    Extracted("extractTumorSize") =>
        LET matches == inExtract.arg
        IN  IF matches = <<>>
            THEN outExtract.size = 0 /\ outExtract.confidence = 0
            ELSE /\ \E i \in 1..Len(matches) : outExtract.size * 10 = Millimetres(matches[i])
                 /\ \A i \in 1..Len(matches) : outExtract.size * 10 >= Millimetres(matches[i])
                 /\ outExtract.confidence = (IF Len(matches) = 1 THEN 90 ELSE 70)

\* C18 witness: of '45 MM' and '5 cm' the size returned is 5 cm.
C18_Witness ==
    /\ Extracted("extractTumorSize")
    /\ inExtract.arg = <<SizeMatch(<<"4", "5">>, <<"M", "M">>), SizeMatch(<<"5">>, <<"c", "m">>)>>
    /\ outExtract.size = Cm(5)
    /\ outExtract.confidence = 70

\* what a mention of lymph nodes counts for
MentionCount(match) ==
    IF match.num # Null THEN parseInt(match.num.str)
    ELSE LET qualifier == toLowerCase(match.match)
         IN  IF startsWith(qualifier, <<"s", "e", "v", "e", "r", "a", "l">>) THEN 3 ELSE 5

\* C19: given the mentions of lymph nodes of a text, extractLymphNodes returns
\* the maximum over the mentions, a number counting as itself, 'multiple' and
\* 'numerous' as 5 and 'several' as 3, with confidence 0.8; with no mention it
\* returns 0 with confidence 0.5; the count is never negative.
C19_LargestNodeCount ==
    Extracted("extractLymphNodes") =>
        LET matches == inExtract.arg
        IN  /\ outExtract.count >= 0
            /\ IF matches = <<>>
               THEN outExtract.count = 0 /\ outExtract.confidence = 50
               ELSE /\ \E i \in 1..Len(matches) : outExtract.count = MentionCount(matches[i])
                    /\ \A i \in 1..Len(matches) : outExtract.count >= MentionCount(matches[i])
                    /\ outExtract.confidence = 80

\* C19 witness: of 'Multiple nodes' and '4 nodes' the count returned is 5.
C19_Witness ==
    /\ Extracted("extractLymphNodes")
    /\ Len(inExtract.arg) = 2
    /\ inExtract.arg[1].num = Null
    /\ startsWith(inExtract.arg[1].match, Capitalize(Q_multiple))
    /\ inExtract.arg[2].num = [str |-> <<"4">>]
    /\ outExtract.count = 5
    /\ outExtract.confidence = 80

\* the depths of invasion in the order of the claim
DepthOrder == <<S_mucosa, S_submucosa, S_muscularis, S_subserosa, S_serosa, S_adventitia>>

\* the text has 'mucosa' somewhere else than in 'submucosa'
MucosaOnItsOwn(textLower) ==
    \E i \in 1..(Len(textLower) - Len(S_mucosa) + 1) :
        /\ SubSeq(textLower, i, i + Len(S_mucosa) - 1) = S_mucosa
        /\ ~(i > 3 /\ SubSeq(textLower, i - 3, i - 1) = <<"s", "u", "b">>)

\* C20 (as claimed): extractFeatures sets tumor_depth to the first of mucosa,
\* submucosa, muscularis, subserosa, serosa, adventitia that occurs in the
\* lower-cased text and to '' when none occurs, and a text that mentions
\* 'submucosa' and not the mucosa on its own has tumor_depth 'submucosa'.
C20_DepthOfSubmucosa ==
    Extracted("extractFeatures") =>
        LET textLower == toLowerCase(inExtract.arg)
            found == {i \in 1..Len(DepthOrder) : includes(textLower, DepthOrder[i])}
        IN  /\ outExtract.tumor_depth =
                  (IF found = {} THEN <<>> ELSE DepthOrder[Min(found)])
            /\ (includes(textLower, S_submucosa) /\ ~MucosaOnItsOwn(textLower))
                  => outExtract.tumor_depth = S_submucosa

\* the T categories of the depthToT tables
EsophagealTable == {S_T1, S_T1b, S_T2, S_T3, S_T4}

ColorectalTable == {S_T1, S_T2, S_T3, S_T4}

\* some report text is staged as cancer type `type' with T category T
ReportGives(type, T) ==
    \E text \in StagedReportTexts :
        LET staged == stageReport(text)
        IN  staged.features.cancer_type = type /\ staged.staging.T = T

\* C21 (as claimed): when a report has been staged as esophageal or as
\* colorectal, every T category of the table of that type is returned for
\* some report text by extractFeatures followed by determineTNMStage, and so
\* is colorectal 'Stage I'.
C21_EveryDepthCategoryReachable ==
    Extracted("stageReport") =>
        LET type == outExtract.features.cancer_type
        IN  /\ type = S_esophageal => \A T \in EsophagealTable : ReportGives(type, T)
            /\ type = S_colorectal =>
                  /\ \A T \in ColorectalTable : ReportGives(type, T)
                  /\ \E text \in StagedReportTexts :
                        LET staged == stageReport(text)
                        IN  /\ staged.features.cancer_type = type
                            /\ staged.staging.stage = S_Stage_I

\* the stage labels determineTNMStage returns for each supported type
ReturnableStages ==
    [type \in ExtractedTypeNames |-> {determineTNMStage(type, f).stage : f \in FeatureInputs}]

\* the Roman-numeral stage group of a stage label
GroupOfLabel ==
    (S_Stage_I :> "I") @@ (S_Stage_II :> "II") @@
    (S_Stage_III :> "III") @@ (S_Stage_IIIA :> "III") @@ (S_Stage_IIIB :> "III") @@
    (S_Stage_IV :> "IV") @@ (S_Stage_IVA :> "IV") @@ (S_Stage_IVB :> "IV") @@
    (S_Stage_IVC :> "IV")

\* C22 (as claimed): for a supported type in lower case and a stage label its
\* stager can return, getTreatmentGuidelines returns the entry of the label's
\* Roman-numeral group (I for 'Stage I', II for 'Stage II', III for 'Stage
\* III', 'IIIA', 'IIIB', IV for 'Stage IV', 'IVA', 'IVB', 'IVC'); for 'Stage
\* Unknown', 'Not available' or an unsupported type it returns 'Treatment
\* information not available.'.
C22_TreatmentOfStageGroup ==
    Extracted("getTreatmentGuidelines") =>
        LET cancerType == inExtract.arg[1]
            stage == inExtract.arg[2]
        IN  /\ (/\ cancerType \in ExtractedTypeNames
                /\ stage \in ReturnableStages[cancerType]
                /\ stage \in DOMAIN GroupOfLabel)
                  => outExtract = treatmentDict[cancerType][GroupOfLabel[stage]]
            /\ (\/ cancerType \notin ExtractedTypeNames
                \/ stage \in {S_Stage_Unknown, S_Not_available})
                  => outExtract = TX_not_available

(***************************************************************************)
(* Claims about QASection                                                  *)
(***************************************************************************)
\* the messages alternate user, assistant, starting with a user message
MessagesAlternate ==
    \A i \in 1..Len(messages) :
        messages[i].type = (IF i % 2 = 1 THEN "user" ELSE "assistant")

\* the last message is a user message and the timer of its answer is pending
AwaitingAnswer ==
    /\ messages # <<>>
    /\ messages[Len(messages)].type = "user"
    /\ Len(answerTimers) = 1
    /\ answerTimers[1].currentQuestion = messages[Len(messages)].content

\* each assistant message is generateAnswer of the content of the message
\* before it and of results the component has been given
AnswersFollowQuestions ==
    \A i \in 1..Len(messages) :
        messages[i].type = "assistant" =>
            /\ i > 1
            /\ \E r \in QAResultsInputs :
                  messages[i].content = generateAnswer(messages[i - 1].content, r)

\* C29 (state part): alternation, isLoading and the answers
C29_Messages ==
    /\ MessagesAlternate
    /\ isLoading <=> AwaitingAnswer
    /\ ~isLoading => answerTimers = <<>>
    /\ AnswersFollowQuestions

\* C29 (step part): a call of handleSubmit while isLoading is true or with a
\* blank currentQuestion changes no state of the component, and a timer
\* appends the answer generated for the last message with the results of the
\* submission
C29_Steps ==
    /\ (submitted' # submitted /\ (isLoading \/ trim(currentQuestion) = <<>>))
          => UNCHANGED <<messages, currentQuestion, isLoading, answerTimers>>
    /\ (Len(answerTimers') < Len(answerTimers))
          => messages' = Append(messages,
                 QAMessage("assistant",
                           generateAnswer(messages[Len(messages)].content,
                                          answerTimers[1].results)))

\* C29: after any sequence of submissions and answer timers the messages
\* alternate user, assistant starting with a user message; a submission while
\* isLoading is true or with a blank question changes nothing; isLoading is
\* true exactly when the last message is a user message whose answer is
\* awaited; each assistant message is the answer generated for the user
\* message right before it.
C29_MessagesAlternate == []C29_Messages /\ [][C29_Steps]_vars

\* C29 witness: of three calls of handleSubmit one was ignored and two were
\* answered, with different answers, the second one for a quick question
\* picked while the first answer was awaited.
C29_Witness ==
    /\ submitted = 3
    /\ Len(messages) = 4
    /\ ~isLoading
    /\ messages[2].content # messages[4].content
    /\ messages[3].content \in {predefinedQuestions[i] : i \in 1..Len(predefinedQuestions)}
====
